---- MODULE Spec2Model ----
(***************************************************************************)
(* The incremental search index of astrophoenix-host.                      *)
(*                                                                         *)
(* Two entry points build an index from a remote manifest:                 *)
(*   - the indexing effect of SearchPage (src/src/App.tsx, 324-458),       *)
(*   - buildIndex (src/src/search.ts, 5-148).                              *)
(* A behaviour of Spec is one run of one of them (variable prog).  Every   *)
(* action is one JavaScript job: the code that runs between two awaits or  *)
(* timer callbacks, with everything it calls.                              *)
(*                                                                         *)
(* Texts (file names, titles, bodies, tokens, paths) are sequences of      *)
(* one-character strings, so that tokenize, the extension strip and the    *)
(* percent-encoding are computed character for character.                  *)
(***************************************************************************)
EXTENDS Integers, Sequences, FiniteSets, TLC

\* ------------------------------------------------------------------ bounds

\* Longest manifest the manifest endpoint answers with.
MaxDocs == 3

\* Longest URL list the URL-list endpoint answers with.
MaxUrls == 3

\* ------------------------------------------------------------ text helpers

UpperChars ==
  <<"A","B","C","D","E","F","G","H","I","J","K","L","M",
    "N","O","P","Q","R","S","T","U","V","W","X","Y","Z">>

LowerChars ==
  <<"a","b","c","d","e","f","g","h","i","j","k","l","m",
    "n","o","p","q","r","s","t","u","v","w","x","y","z">>

DigitChars == <<"0","1","2","3","4","5","6","7","8","9">>

Range(s) == { s[i] : i \in DOMAIN s }

UpperSet == Range(UpperChars)

LowerOf ==
  [ c \in UpperSet |-> LowerChars[CHOOSE i \in DOMAIN UpperChars : UpperChars[i] = c] ]

\* String.prototype.toLowerCase on one character.
LowerChar(c) == IF c \in UpperSet THEN LowerOf[c] ELSE c

toLowerCase(s) == [ i \in DOMAIN s |-> LowerChar(s[i]) ]

\* The character class [a-z0-9] of tokenize's split pattern.
WordChars == Range(LowerChars) \cup Range(DigitChars)

\* The split pattern /\s+/: every character but white space is kept.
IsNotSpace(c) == c # " "

IsWordChar(c) == c \in WordChars

\* split(/[^a-z0-9]+/g).filter(Boolean): the maximal runs of word characters.
\* cur is the run being read, acc the runs already closed.
RECURSIVE SplitWords(_, _, _)
SplitWords(s, cur, acc) ==
  IF s = <<>>
    THEN IF cur = <<>> THEN acc ELSE Append(acc, cur)
    ELSE IF IsWordChar(Head(s))
      THEN SplitWords(Tail(s), Append(cur, Head(s)), acc)
      ELSE SplitWords(Tail(s), <<>>, IF cur = <<>> THEN acc ELSE Append(acc, cur))

tokenize(text) == SplitWords(toLowerCase(text), <<>>, <<>>)

\* filename.replace(/\.txt$/i, "")
StripTxt(f) ==
  IF Len(f) >= 4 /\ toLowerCase(SubSeq(f, Len(f) - 3, Len(f))) = <<".","t","x","t">>
    THEN SubSeq(f, 1, Len(f) - 4)
    ELSE f

\* The characters encodeURIComponent leaves alone.
Unreserved ==
  Range(UpperChars) \cup Range(LowerChars) \cup Range(DigitChars)
    \cup {"-", "_", ".", "!", "~", "*", "'", "(", ")"}

\* The percent escape of one reserved character (the ASCII ones a file name
\* of the modelled manifests can hold).
PercentEscape(c) ==
  CASE c = " " -> <<"%","2","0">>
    [] c = "%" -> <<"%","2","5">>
    [] c = "/" -> <<"%","2","F">>
    [] c = "?" -> <<"%","3","F">>
    [] c = "#" -> <<"%","2","3">>
    [] c = "&" -> <<"%","2","6">>
    [] c = "+" -> <<"%","2","B">>
    [] OTHER   -> <<"%","3","D">>

RECURSIVE encodeURIComponent(_)
encodeURIComponent(s) ==
  IF s = <<>> THEN <<>>
  ELSE (IF Head(s) \in Unreserved THEN <<Head(s)>> ELSE PercentEscape(Head(s)))
         \o encodeURIComponent(Tail(s))

\* --------------------------------------------------------------- the remote

\* The file name at position k of the manifest the endpoint serves.  The
\* first three exercise the extension strip (case-insensitive), a character
\* that needs percent-encoding, and a name without extension.
FileName(k) ==
  CASE k = 1 -> <<"a",".","t","x","t">>
    [] k = 2 -> <<"B"," ","c",".","T","X","T">>
    [] k = 3 -> <<"d">>
    [] OTHER -> <<"p", DigitChars[(k % 10) + 1], ".","t","x","t">>

\* The entry at position k of the URL list the second endpoint serves.
UrlEntry(k) == <<"u", DigitChars[(k % 10) + 1]>>

ManifestOf(n) == [ k \in 1..n |-> FileName(k) ]
UrlsOf(m) == [ k \in 1..m |-> UrlEntry(k) ]

\* The manifests the endpoint can serve: every prefix of the file names, and
\* a list that names the first file twice (nothing in the code checks the
\* JSON array for repeated names).
RepeatedManifest == << FileName(1), FileName(1) >>
Manifests == { ManifestOf(n) : n \in 0..MaxDocs } \cup { RepeatedManifest }

\* The bodies a document request can answer with (an empty file included).
Bodies == { <<>>, <<"M","a","r","s"," ","a">> }

\* How a fetch() settles: a success status, a non-success status, a rejection.
FetchOutcomes == {"ok", "notok", "throw"}

\* How reading a body settles: resp.json() / r.text() fulfils or rejects.
BodyOutcomes == {"ok", "throw"}

\* The largest navigator.hardwareConcurrency a host reports.
MaxHardwareConcurrency == 16

\* navigator.hardwareConcurrency: 0 stands for undefined (both are falsy).
HardwareConcurrencies == {0, 1, MaxHardwareConcurrency}

\* opts.concurrency of buildIndex: -1 stands for "not given".
ConcurrencyOptions == {-1, 0, 1, 2}

\* -------------------------------------------------------------------- state

VARIABLES
  prog,          \* "app": SearchPage's indexing effect; "lib": buildIndex
  MANIFEST_URL,  \* config.ts MANIFEST_URL / buildIndex's manifestUrl ("" = empty)
  BASE_URL,      \* config.ts BASE_URL / buildIndex's baseUrl ("" = empty)
  pc,            \* where the async function (fetchManifestAndIndex / buildIndex) is suspended
  status,        \* useState status: "idle" | "indexing" | "ready" | "error"
  error,         \* useState error: the message set by setError ("" = null)
  progress,      \* useState progress: {done, total}
  promise,       \* the promise buildIndex returns: "none" | "pending" | "fulfilled" | "rejected"
  manifest,      \* const manifest
  urls,          \* const urls
  concurrency,   \* const concurrency
  queue,         \* const queue (App.tsx) / const q (search.ts)
  urlqueue,      \* const urlqueue
  active,        \* let active
  done,          \* let done
  chain,         \* the worker chains: chain[i] is the i-th promise of starters / workers
  docs,          \* docsRef.current (a Map, in insertion order) / const docs (an array)
  inverted,      \* invertedRef.current: token -> set of ids
  fuse,          \* fuseRef.current / const fuse: the collection the Fuse instance holds
  requests,      \* history: how many fetches were issued, by kind
  settled,       \* history: how the manifest and URL-list requests and their bodies settled
  claimCount,    \* history: claimCount[p] = how often manifest position p was shifted off the queue
  failedPos,     \* history: the manifest positions indexed with the fallback (empty) content
  published,     \* history: the values handed to setProgress / onProgress, in call order
  completed,     \* history: the manifest positions in the order their documents completed
  query,         \* useState query, as doSearch / search last set it (trimmed)
  results,       \* useState results (SearchPage) / the list search() resolved with
  pending,       \* the doSearch call suspended on an await, with its locals
  reads,         \* history: the shared structures the last query read
  asked,         \* history: whether a query was run, and the text and max it was called with
  raised,        \* the error the promise of the doSearch call rejected with ("" = none)
  saved,         \* useState saved of ResultsProvider: the saved records, newest first
  toggled,       \* history: the last toggleSaved call and the saved list before it
  currentUser,   \* getAuth().currentUser ("" = signed out)
  server,        \* the user's server document: whether it exists, and its field saved
  getDoc,        \* the getDoc of the sign-in effect: where it is, and the snapshot it read
  setDocs,       \* the setDoc calls of toggleSaved in flight, oldest first
  atSignIn,      \* history: the identifiers the server document held at sign-in
  touched,       \* history: the identifiers toggleSaved was called with
  input,         \* the text tokenize is called with
  calls,         \* history: what the calls of tokenize on input returned, in call order
  rejoined,      \* history: the tokens joined by a separator and tokenized again
  excerpted,     \* history: the last call of makeExcerpt / excerptFor and what it returned
  initialResults,\* ResultsPage: const initialResults (state.results ?? lastResults ?? [])
  listed,        \* ResultsPage: useState results
  page,          \* ResultsPage: useState page
  pageSize,      \* ResultsPage: useState pageSize
  activeQuery,   \* ResultsPage: useState activeQuery
  pageResults    \* ResultsPage: the memoized pageResults of the last render

vars ==
  << prog, MANIFEST_URL, BASE_URL, pc, status, error, progress, promise, manifest, urls,
     concurrency, queue, urlqueue, active, done, chain, docs, inverted, fuse,
     requests, settled, claimCount, failedPos, published, completed,
     query, results, pending, reads, asked, raised, saved, toggled,
     currentUser, server, getDoc, setDocs, atSignIn, touched,
     input, calls, rejoined, excerpted,
     initialResults, listed, page, pageSize, activeQuery, pageResults >>

\* What fetchManifestAndIndex / buildIndex holds in its closure once the lists are known.
closure == << manifest, urls, concurrency >>

\* The shared index structures.
index == << docs, inverted, fuse >>

\* What a query writes.
searchVars == << query, results, pending, reads, asked, raised >>

\* What ResultsProvider keeps about saved records.
savedVars == << saved, toggled, currentUser, server, getDoc, setDocs, atSignIn, touched >>

\* What the provider keeps about the signed-in user and the server document.
serverVars == << currentUser, server, getDoc, setDocs, atSignIn, touched >>

\* The sign-in effect has not read the server document.
NoRead == [ st |-> "none", snap |-> [ exists |-> FALSE, saved |-> <<>> ], local |-> <<>> ]

\* Nobody is signed in and no toggle was made.
SignedOut ==
  /\ currentUser = ""
  /\ server = [ exists |-> FALSE, saved |-> <<>> ]
  /\ getDoc = NoRead
  /\ setDocs = <<>>
  /\ atSignIn = {}
  /\ touched = {}

\* toggleSaved was not called (since the saved list was last loaded).
NoToggle == [ called |-> FALSE, item |-> <<>>, before |-> <<>> ]

\* Nothing is saved.
Unsaved == saved = <<>> /\ toggled = NoToggle /\ SignedOut

\* What the calls of tokenize on one text, and of makeExcerpt, leave.
tokenVars == << input, calls, rejoined, excerpted >>

\* The tokens were not joined again.
NoRejoin == [ called |-> FALSE, sep |-> "", tokens |-> <<>> ]

\* makeExcerpt was not called.
NoExcerpt == [ called |-> FALSE, content |-> <<>>, idx |-> 0, len |-> 0, out |-> <<>> ]

\* tokenize and makeExcerpt were not called.
Untokenized ==
  input = <<>> /\ calls = <<>> /\ rejoined = NoRejoin /\ excerpted = NoExcerpt

\* What ResultsPage keeps.
pageVars == << initialResults, listed, page, pageSize, activeQuery, pageResults >>

\* const [pageSize, setPageSize] = useState<number>(10) of ResultsProvider,
\* the page size ResultsPage starts with.
DefaultPageSize == 10

\* ResultsPage is mounted without results.
NoResultsPage ==
  /\ initialResults = <<>>
  /\ listed = <<>>
  /\ page = 1
  /\ pageSize = DefaultPageSize
  /\ activeQuery = <<>>
  /\ pageResults = <<>>

\* No doSearch call is suspended.
NoCall == [ st |-> "idle", hitsArr |-> <<>>, count |-> 0 ]

\* No query was run.
NotAsked == [ called |-> FALSE, q |-> <<>>, max |-> 0 ]

Min(a, b) == IF a <= b THEN a ELSE b
Max(a, b) == IF a >= b THEN a ELSE b

\* A worker chain that holds no document.
IdleChain(st) ==
  [ st |-> st, filename |-> <<>>, urll |-> <<>>, pos |-> 0, paths |-> <<>>, outcomes |-> <<>> ]

InFlight == {"fetchEnc", "textEnc", "fetchRaw", "textRaw"}

\* The state after construction: the component is mounted and its effect has
\* not run (prog = "app"), or buildIndex has not been called (prog = "lib").
Constructed ==
  /\ prog \in {"app", "lib"}
  /\ MANIFEST_URL \in {"", "set"}
  /\ BASE_URL \in {"", "set"}
  /\ pc = "mount"
  /\ status = "idle"
  /\ error = ""
  /\ progress = [ done |-> 0, total |-> 0 ]
  /\ promise = "none"
  /\ manifest = <<>>
  /\ urls = <<>>
  /\ concurrency = 0
  /\ queue = <<>>
  /\ urlqueue = <<>>
  /\ active = 0
  /\ done = 0
  /\ chain = <<>>
  /\ docs = <<>>
  /\ inverted = << >>
  /\ fuse = [ created |-> FALSE, docs |-> <<>> ]
  /\ requests = [ manifest |-> 0, urls |-> 0, docs |-> 0 ]
  /\ settled = [ manifest |-> "", manifestBody |-> "", urls |-> "", urlsBody |-> "" ]
  /\ claimCount = [ p \in 1..MaxDocs |-> 0 ]
  /\ failedPos = {}
  /\ published = <<>>
  /\ completed = <<>>
  /\ query = <<>>
  /\ results = <<>>
  /\ pending = NoCall
  /\ reads = {}
  /\ asked = NotAsked
  /\ raised = ""

\* The state after construction, with nothing saved.
Init ==
  /\ Constructed
  /\ Unsaved
  /\ Untokenized
  /\ NoResultsPage

\* ------------------------------------------------------- indexing one document

\* Map.prototype.set on the document table: an existing key keeps its place.
MapSet(m, d) ==
  IF \E k \in DOMAIN m : m[k].id = d.id
    THEN [ k \in DOMAIN m |-> IF m[k].id = d.id THEN d ELSE m[k] ]
    ELSE Append(m, d)

MapHas(m, id) == \E k \in DOMAIN m : m[k].id = id
MapGet(m, id) == m[CHOOSE k \in DOMAIN m : m[k].id = id]
MapKeys(m) == { m[k].id : k \in DOMAIN m }

\* tokens.forEach: the posting set of every token of toks gains id, a token
\* seen for the first time gets a new set.
AddPostings(inv, toks, id) ==
  [ t \in (DOMAIN inv) \cup toks |->
      (IF t \in DOMAIN inv THEN inv[t] ELSE {}) \cup (IF t \in toks THEN {id} ELSE {}) ]

\* fuseRef.current?.add(d), and the catch that rebuilds the Fuse instance from
\* the document table when add throws.  table is the table after the set.
FuseAdd(f, table, d, addThrows) ==
  IF ~f.created THEN f
  ELSE IF addThrows THEN [ created |-> TRUE, docs |-> table ]
  ELSE [ created |-> TRUE, docs |-> Append(f.docs, d) ]

\* indexDoc that only stores d in the document table (the postings and the
\* Fuse entry left to a later job).
indexDocTableOnly(table, inv, f, d, addThrows) ==
  [ docs |-> MapSet(table, d), inverted |-> inv, fuse |-> f ]

\* indexDoc(d): the three structures after d was indexed.
indexDoc(table, inv, f, d, addThrows) ==
  LET table2 == MapSet(table, d)
      tokens == Range(tokenize(d.title)) \cup Range(tokenize(d.content))
  IN [ docs     |-> table2,
       inverted |-> AddPostings(inv, tokens, d.id),
       fuse     |-> FuseAdd(f, table2, d, addThrows) ]

\* The Doc next() builds for a file name.
AppDoc(filename, content, urll) ==
  [ id |-> filename, title |-> StripTxt(filename), content |-> content, url |-> urll ]

\* ------------------------------------------------- SearchPage: the worker chains

\* Shift that reads the head and leaves it in the queue (queue[0] in place
\* of queue.shift()).
ShiftPeek(q) == q

\* Array.prototype.shift: what is left of the queue.
Shift(q) == Tail(q)

\* The concurrency without the upper limit of 8.
ConcurrencyUncapped(hc) == Max(2, IF hc = 0 THEN 4 ELSE hc)

\* const concurrency = Math.min(8, Math.max(2, Math.floor(hardwareConcurrency || 4)))
Concurrency(hc) == Min(8, Max(2, IF hc = 0 THEN 4 ELSE hc))

\* The synchronous part of next() for chain i, on the record L of the closure's
\* mutable variables: resolve when either queue is empty, else shift both
\* queues and issue the fetch of the percent-encoded path.
next(L, i) ==
  IF L.queue = <<>> THEN [ L EXCEPT !.chain[i] = IdleChain("resolved") ]
  ELSE IF L.urlqueue = <<>> THEN [ L EXCEPT !.chain[i] = IdleChain("resolved") ]
  ELSE
    LET filename == Head(L.queue)
        urll     == Head(L.urlqueue)
        pos      == Len(manifest) - Len(L.queue) + 1
    IN [ L EXCEPT
           !.queue = Shift(@),
           !.urlqueue = Shift(@),
           !.active = @ + 1,
           !.chain[i] = [ st |-> "fetchEnc", filename |-> filename, urll |-> urll,
                          pos |-> pos, paths |-> << encodeURIComponent(filename) >>,
                          outcomes |-> <<>> ],
           !.claimCount[pos] = @ + 1,
           !.requests.docs = @ + 1 ]

\* for (let i = 0; i < concurrency; i++) starters.push(next())
RECURSIVE StartChains(_, _, _)
StartChains(L, i, k) == IF i > k THEN L ELSE StartChains(next(L, i), i + 1, k)

\* Complete with the document counted twice (done++ in the try block and
\* again in the finally block).
CompleteCountedTwice(i, content, fellBack) ==
  LET c == chain[i]
      d == AppDoc(c.filename, content, c.urll)
  IN \E addThrows \in BOOLEAN :
       LET ix == indexDoc(docs, inverted, fuse, d, addThrows)
       IN /\ docs' = ix.docs
          /\ inverted' = ix.inverted
          /\ fuse' = ix.fuse
          /\ done' = done + 2
          /\ active' = active - 1
          /\ progress' = [ done |-> done + 2, total |-> Len(manifest) ]
          /\ published' = Append(published, [ done |-> done + 2, total |-> Len(manifest) ])
          /\ completed' = Append(completed, c.pos)
          /\ failedPos' = IF fellBack THEN failedPos \cup {c.pos} ELSE failedPos
          /\ chain' = [ chain EXCEPT ![i] =
                          IdleChain(IF queue # <<>> THEN "timer" ELSE "resolved") ]

\* The finally block of next() with setProgress skipped for a document that
\* was indexed with the fallback content.
CompleteSilentOnFallback(i, content, fellBack) ==
  LET c == chain[i]
      d == AppDoc(c.filename, content, c.urll)
  IN \E addThrows \in BOOLEAN :
       LET ix == indexDoc(docs, inverted, fuse, d, addThrows)
       IN /\ docs' = ix.docs
          /\ inverted' = ix.inverted
          /\ fuse' = ix.fuse
          /\ done' = done + 1
          /\ active' = active - 1
          /\ progress' = IF fellBack THEN progress
                         ELSE [ done |-> done + 1, total |-> Len(manifest) ]
          /\ published' = IF fellBack THEN published
                          ELSE Append(published, [ done |-> done + 1, total |-> Len(manifest) ])
          /\ completed' = Append(completed, c.pos)
          /\ failedPos' = IF fellBack THEN failedPos \cup {c.pos} ELSE failedPos
          /\ chain' = [ chain EXCEPT ![i] =
                          IdleChain(IF queue # <<>> THEN "timer" ELSE "resolved") ]

\* The finally block of next() without "active--".
CompleteStillActive(i, content, fellBack) ==
  LET c == chain[i]
      d == AppDoc(c.filename, content, c.urll)
  IN \E addThrows \in BOOLEAN :
       LET ix == indexDoc(docs, inverted, fuse, d, addThrows)
       IN /\ docs' = ix.docs
          /\ inverted' = ix.inverted
          /\ fuse' = ix.fuse
          /\ done' = done + 1
          /\ active' = active
          /\ progress' = [ done |-> done + 1, total |-> Len(manifest) ]
          /\ published' = Append(published, [ done |-> done + 1, total |-> Len(manifest) ])
          /\ completed' = Append(completed, c.pos)
          /\ failedPos' = IF fellBack THEN failedPos \cup {c.pos} ELSE failedPos
          /\ chain' = [ chain EXCEPT ![i] =
                          IdleChain(IF queue # <<>> THEN "timer" ELSE "resolved") ]

\* Complete with the URL taken off the URL list when the document completes
\* (the next entry in completion order), not when its name was claimed.
CompleteUrlOnCompletion(i, content, fellBack) ==
  LET c == chain[i]
      d == AppDoc(c.filename, content, urls[done + 1])
  IN \E addThrows \in BOOLEAN :
       LET ix == indexDoc(docs, inverted, fuse, d, addThrows)
       IN /\ docs' = ix.docs
          /\ inverted' = ix.inverted
          /\ fuse' = ix.fuse
          /\ done' = done + 1
          /\ active' = active - 1
          /\ progress' = [ done |-> done + 1, total |-> Len(manifest) ]
          /\ published' = Append(published, [ done |-> done + 1, total |-> Len(manifest) ])
          /\ completed' = Append(completed, c.pos)
          /\ failedPos' = IF fellBack THEN failedPos \cup {c.pos} ELSE failedPos
          /\ chain' = [ chain EXCEPT ![i] =
                          IdleChain(IF queue # <<>> THEN "timer" ELSE "resolved") ]

\* The finally block of next() for chain i after indexDoc(d) ran: count the
\* document, publish the progress, and either arm the timer that calls next()
\* again or resolve the chain.
Complete(i, content, fellBack) ==
  LET c == chain[i]
      d == AppDoc(c.filename, content, c.urll)
  IN \E addThrows \in BOOLEAN :
       LET ix == indexDoc(docs, inverted, fuse, d, addThrows)
       IN /\ docs' = ix.docs
          /\ inverted' = ix.inverted
          /\ fuse' = ix.fuse
          /\ done' = done + 1
          /\ active' = active - 1
          /\ progress' = [ done |-> done + 1, total |-> Len(manifest) ]
          /\ published' = Append(published, [ done |-> done + 1, total |-> Len(manifest) ])
          /\ completed' = Append(completed, c.pos)
          /\ failedPos' = IF fellBack THEN failedPos \cup {c.pos} ELSE failedPos
          /\ chain' = [ chain EXCEPT ![i] =
                          IdleChain(IF queue # <<>> THEN "timer" ELSE "resolved") ]

\* --------------------------------------- SearchPage: fetchManifestAndIndex

history == << requests, claimCount, failedPos, published, completed >>
workers == << queue, urlqueue, active, done, chain >>

\* if (!MANIFEST_URL || !BASE_URL) / if (!manifestUrl || !baseUrl)
ConfigMissing == MANIFEST_URL = "" \/ BASE_URL = ""

\* catch (e) { setError(...); setStatus("error") } of fetchManifestAndIndex.
Fail(message) ==
  /\ error' = message
  /\ status' = "error"
  /\ pc' = "end"

\* The effect body: the configuration check, the empty Fuse instance, and
\* fetchManifestAndIndex up to its first await.
Mount ==
  /\ prog = "app"
  /\ pc = "mount"
  /\ IF ConfigMissing
       THEN /\ Fail("Please set MANIFEST_URL and BASE_URL in src/config.ts")
            /\ UNCHANGED << fuse, requests >>
       ELSE /\ fuse' = [ created |-> TRUE, docs |-> <<>> ]
            /\ status' = "indexing"
            /\ requests' = [ requests EXCEPT !.manifest = @ + 1 ]
            /\ pc' = "manifest"
            /\ error' = error
  /\ UNCHANGED << searchVars, savedVars, tokenVars, pageVars, prog, MANIFEST_URL, BASE_URL, progress, promise, closure, workers,
                  docs, inverted, settled, claimCount, failedPos, published, completed >>

\* ManifestResponse with "if (!resp.ok) setStatus("error")" in place of the
\* throw: the status is set and the function goes on to read the body.
ManifestResponseNoThrow(o) ==
  /\ prog = "app"
  /\ pc = "manifest"
  /\ CASE o = "ok"    -> pc' = "manifestJson" /\ UNCHANGED << status, error >>
       [] o = "notok" -> /\ error' = "Failed to fetch manifest: status"
                         /\ status' = "error"
                         /\ pc' = "manifestJson"
       [] o = "throw" -> Fail("fetch rejected")
  /\ settled' = [ settled EXCEPT !.manifest = o ]
  /\ UNCHANGED << searchVars, savedVars, tokenVars, pageVars, prog, MANIFEST_URL, BASE_URL, progress, promise, closure, workers,
                  index, history >>

\* ManifestResponse with a retry: a manifest request that did not succeed is
\* issued again instead of ending the run.
ManifestResponseRetry(o) ==
  /\ prog = "app"
  /\ pc = "manifest"
  /\ IF o = "ok"
       THEN pc' = "manifestJson" /\ UNCHANGED requests
       ELSE pc' = "manifest" /\ requests' = [ requests EXCEPT !.manifest = @ + 1 ]
  /\ settled' = [ settled EXCEPT !.manifest = o ]
  /\ UNCHANGED << searchVars, savedVars, tokenVars, pageVars, prog, MANIFEST_URL, BASE_URL, status, error, progress, promise, closure,
                  workers, index, claimCount, failedPos, published, completed >>

\* await fetch(MANIFEST_URL) settles; if (!resp.ok) throw.
ManifestResponse(o) ==
  /\ prog = "app"
  /\ pc = "manifest"
  /\ CASE o = "ok"    -> pc' = "manifestJson" /\ UNCHANGED << status, error >>
       [] o = "notok" -> Fail("Failed to fetch manifest: status")
       [] o = "throw" -> Fail("fetch rejected")
  /\ settled' = [ settled EXCEPT !.manifest = o ]
  /\ UNCHANGED << searchVars, savedVars, tokenVars, pageVars, prog, MANIFEST_URL, BASE_URL, progress, promise, closure, workers,
                  index, history >>

\* await resp.json() settles with the manifest mf; setProgress; the fetch of
\* the URL list is issued.
ManifestJson(o, mf) ==
  /\ prog = "app"
  /\ pc = "manifestJson"
  /\ IF o = "ok"
       THEN /\ manifest' = mf
            /\ progress' = [ done |-> 0, total |-> Len(mf) ]
            /\ published' = Append(published, [ done |-> 0, total |-> Len(mf) ])
            /\ requests' = [ requests EXCEPT !.urls = @ + 1 ]
            /\ pc' = "urls"
            /\ UNCHANGED << status, error >>
       ELSE /\ Fail("json rejected")
            /\ UNCHANGED << manifest, progress, published, requests >>
  /\ settled' = [ settled EXCEPT !.manifestBody = o ]
  /\ UNCHANGED << searchVars, savedVars, tokenVars, pageVars, prog, MANIFEST_URL, BASE_URL, promise, urls, concurrency, workers,
                  index, claimCount, failedPos, completed >>

\* await fetch(".../output.json") settles; if (!respurl.ok) throw.
UrlsResponse(o) ==
  /\ prog = "app"
  /\ pc = "urls"
  /\ CASE o = "ok"    -> pc' = "urlsJson" /\ UNCHANGED << status, error >>
       [] o = "notok" -> Fail("Failed to fetch manifest urls: status")
       [] o = "throw" -> Fail("fetch rejected")
  /\ settled' = [ settled EXCEPT !.urls = o ]
  /\ UNCHANGED << searchVars, savedVars, tokenVars, pageVars, prog, MANIFEST_URL, BASE_URL, progress, promise, closure, workers,
                  index, history >>

\* await respurl.json() settles with a list of m URLs; the queues are copied
\* and the concurrency chains are started, each running next() up to its
\* first await; then the function waits on Promise.all(starters).
UrlsJson(o, m, hc) ==
  /\ prog = "app"
  /\ pc = "urlsJson"
  /\ IF o = "ok"
       THEN LET k  == Concurrency(hc)
                L0 == [ queue |-> manifest, urlqueue |-> UrlsOf(m), active |-> 0,
                        chain |-> [ i \in 1..k |-> IdleChain("new") ],
                        claimCount |-> claimCount, requests |-> requests ]
                L  == StartChains(L0, 1, k)
            IN /\ urls' = UrlsOf(m)
               /\ concurrency' = k
               /\ queue' = L.queue
               /\ urlqueue' = L.urlqueue
               /\ active' = L.active
               /\ done' = 0
               /\ chain' = L.chain
               /\ claimCount' = L.claimCount
               /\ requests' = L.requests
               /\ pc' = "join"
               /\ UNCHANGED << status, error >>
       ELSE /\ Fail("json rejected")
            /\ UNCHANGED << urls, concurrency, workers, claimCount, requests >>
  /\ settled' = [ settled EXCEPT !.urlsBody = o ]
  /\ UNCHANGED << searchVars, savedVars, tokenVars, pageVars, prog, MANIFEST_URL, BASE_URL, progress, promise, manifest,
                  index, failedPos, published, completed >>

\* What a document step leaves alone.
DocFrame ==
  UNCHANGED << searchVars, savedVars, tokenVars, pageVars, prog, MANIFEST_URL, BASE_URL, pc, status, error, promise, closure, settled >>

\* A document step that only moves chain i on.
Await(i, st, o) ==
  /\ chain' = [ chain EXCEPT ![i].st = st, ![i].outcomes = Append(@, o) ]
  /\ UNCHANGED << queue, urlqueue, active, done, progress, index, history >>

\* EncResponse without the try/catch around the document fetch: a rejected
\* fetch reaches the catch of fetchManifestAndIndex.
EncResponseFatal(i, o) ==
  /\ prog = "app"
  /\ i \in DOMAIN chain
  /\ chain[i].st = "fetchEnc"
  /\ CASE o = "ok"    -> Await(i, "textEnc", o) /\ UNCHANGED << pc, status, error >>
       [] o = "notok" ->
            /\ chain' = [ chain EXCEPT ![i].st = "fetchRaw",
                                       ![i].outcomes = Append(@, o),
                                       ![i].paths = Append(@, chain[i].filename) ]
            /\ requests' = [ requests EXCEPT !.docs = @ + 1 ]
            /\ UNCHANGED << queue, urlqueue, active, done, progress, index,
                            claimCount, failedPos, published, completed >>
            /\ UNCHANGED << pc, status, error >>
       [] o = "throw" ->
            /\ Fail("fetch rejected")
            /\ chain' = [ chain EXCEPT ![i] = IdleChain("resolved") ]
            /\ UNCHANGED << queue, urlqueue, active, done, progress, index, history >>
  /\ UNCHANGED << searchVars, savedVars, tokenVars, pageVars, prog, MANIFEST_URL, BASE_URL, promise, closure, settled >>

\* EncResponse that treats a rejected fetch like a non-success status and
\* goes on to the raw name (the second fetch moved into the catch block).
EncResponseRetryOnThrow(i, o) ==
  /\ prog = "app"
  /\ i \in DOMAIN chain
  /\ chain[i].st = "fetchEnc"
  /\ IF o = "ok"
       THEN Await(i, "textEnc", o)
       ELSE /\ chain' = [ chain EXCEPT ![i].st = "fetchRaw",
                                       ![i].outcomes = Append(@, o),
                                       ![i].paths = Append(@, chain[i].filename) ]
            /\ requests' = [ requests EXCEPT !.docs = @ + 1 ]
            /\ UNCHANGED << queue, urlqueue, active, done, progress, index,
                            claimCount, failedPos, published, completed >>
  /\ DocFrame

\* let r = await fetch(BASE_URL + encoded) settles.  A non-success status
\* issues the fetch of the raw name; a rejection goes to the catch block.
EncResponse(i, o) ==
  /\ prog = "app"
  /\ i \in DOMAIN chain
  /\ chain[i].st = "fetchEnc"
  /\ CASE o = "ok"    -> Await(i, "textEnc", o)
       [] o = "notok" ->
            /\ chain' = [ chain EXCEPT ![i].st = "fetchRaw",
                                       ![i].outcomes = Append(@, o),
                                       ![i].paths = Append(@, chain[i].filename) ]
            /\ requests' = [ requests EXCEPT !.docs = @ + 1 ]
            /\ UNCHANGED << queue, urlqueue, active, done, progress, index,
                            claimCount, failedPos, published, completed >>
       [] o = "throw" ->
            /\ Complete(i, <<>>, TRUE)
            /\ UNCHANGED << queue, urlqueue, requests, claimCount >>
  /\ DocFrame

\* const text = await r.text() settles: indexDoc with the text, or the catch
\* block's indexDoc with empty content; then the finally block.
ReadText(i, st, o, body) ==
  /\ prog = "app"
  /\ i \in DOMAIN chain
  /\ chain[i].st = st
  /\ IF o = "ok"
       THEN Complete(i, body, FALSE)
       ELSE Complete(i, <<>>, TRUE)
  /\ UNCHANGED << queue, urlqueue, requests, claimCount >>
  /\ DocFrame

EncText(i, o, body) == ReadText(i, "textEnc", o, body)

\* r = await fetch(BASE_URL + filename) settles.
RawResponse(i, o) ==
  /\ prog = "app"
  /\ i \in DOMAIN chain
  /\ chain[i].st = "fetchRaw"
  /\ IF o = "ok"
       THEN Await(i, "textRaw", o)
       ELSE /\ Complete(i, <<>>, TRUE)
            /\ UNCHANGED << queue, urlqueue, requests, claimCount >>
  /\ DocFrame

RawText(i, o, body) == ReadText(i, "textRaw", o, body)

\* setTimeout(() => next().then(() => resolve()), 0) fires.
TimerFire(i) ==
  /\ prog = "app"
  /\ i \in DOMAIN chain
  /\ chain[i].st = "timer"
  /\ LET L == next([ queue |-> queue, urlqueue |-> urlqueue, active |-> active,
                     chain |-> chain, claimCount |-> claimCount,
                     requests |-> requests ], i)
     IN /\ queue' = L.queue
        /\ urlqueue' = L.urlqueue
        /\ active' = L.active
        /\ chain' = L.chain
        /\ claimCount' = L.claimCount
        /\ requests' = L.requests
  /\ UNCHANGED << done, progress, index, failedPos, published, completed >>
  /\ DocFrame

\* Promise.all(starters) made to wait until every manifest entry is counted.
AllCounted ==
  /\ \A i \in DOMAIN chain : chain[i].st = "resolved"
  /\ done = Len(manifest)

\* await Promise.all(starters) settles: every chain has resolved.
AllResolved == \A i \in DOMAIN chain : chain[i].st = "resolved"

Join ==
  /\ prog = "app"
  /\ pc = "join"
  /\ AllResolved
  /\ status' = "ready"
  /\ pc' = "end"
  /\ UNCHANGED << searchVars, savedVars, tokenVars, pageVars, prog, MANIFEST_URL, BASE_URL, error, progress, promise, closure,
                  workers, index, history, settled >>

AppNext ==
  \/ Mount
  \/ \E o \in FetchOutcomes : ManifestResponse(o)
  \/ \E o \in BodyOutcomes, mf \in Manifests : ManifestJson(o, mf)
  \/ \E o \in FetchOutcomes : UrlsResponse(o)
  \/ \E o \in BodyOutcomes, m \in 0..MaxUrls, hc \in HardwareConcurrencies : UrlsJson(o, m, hc)
  \/ \E i \in DOMAIN chain, o \in FetchOutcomes : EncResponse(i, o)
  \/ \E i \in DOMAIN chain, o \in BodyOutcomes, body \in Bodies : EncText(i, o, body)
  \/ \E i \in DOMAIN chain, o \in FetchOutcomes : RawResponse(i, o)
  \/ \E i \in DOMAIN chain, o \in BodyOutcomes, body \in Bodies : RawText(i, o, body)
  \/ \E i \in DOMAIN chain : TimerFire(i)
  \/ Join

\* ------------------------------------------------------ search.ts: buildIndex

\* const concurrency = opts?.concurrency ?? 8
LibConcurrency(opt) == IF opt = -1 THEN 8 ELSE opt

\* The Doc worker() pushes for a file name.
LibDoc(filename, content) ==
  [ id |-> filename, title |-> StripTxt(filename), content |-> content ]

\* The head of worker()'s loop for worker i, on the record L of buildIndex's
\* variables (total is manifest.length): return when q is empty, else shift it and enter
\* fetchText, which issues the fetch of the percent-encoded path.
worker(L, i) ==
  IF L.queue = <<>> THEN [ L EXCEPT !.chain[i] = IdleChain("resolved") ]
  ELSE
    LET filename == Head(L.queue)
        pos      == L.total - Len(L.queue) + 1
    IN [ L EXCEPT
           !.queue = Shift(@),
           !.chain[i] = [ st |-> "fetchEnc", filename |-> filename, urll |-> <<>>,
                          pos |-> pos, paths |-> << encodeURIComponent(filename) >>,
                          outcomes |-> <<>> ],
           !.claimCount[pos] = @ + 1,
           !.requests.docs = @ + 1 ]

\* Array.from({length: Math.min(concurrency, manifest.length)}, () => worker())
RECURSIVE StartWorkers(_, _, _)
StartWorkers(L, i, k) == IF i > k THEN L ELSE StartWorkers(worker(L, i), i + 1, k)

\* throw new Error(...) out of buildIndex: the returned promise rejects.
Reject ==
  /\ promise' = "rejected"
  /\ pc' = "end"

\* buildIndex is called: the argument check and the manifest request.
LibCall(opt) ==
  /\ prog = "lib"
  /\ pc = "mount"
  /\ IF ConfigMissing
       THEN Reject /\ UNCHANGED << concurrency, requests >>
       ELSE /\ promise' = "pending"
            /\ concurrency' = LibConcurrency(opt)
            /\ requests' = [ requests EXCEPT !.manifest = @ + 1 ]
            /\ pc' = "manifest"
  /\ UNCHANGED << searchVars, savedVars, tokenVars, pageVars, prog, MANIFEST_URL, BASE_URL, status, error, progress, manifest, urls,
                  workers, index, settled, claimCount, failedPos, published, completed >>

\* await fetch(manifestUrl) settles; if (!resp.ok) throw.
LibManifestResponse(o) ==
  /\ prog = "lib"
  /\ pc = "manifest"
  /\ IF o = "ok" THEN pc' = "manifestJson" /\ UNCHANGED promise ELSE Reject
  /\ settled' = [ settled EXCEPT !.manifest = o ]
  /\ UNCHANGED << searchVars, savedVars, tokenVars, pageVars, prog, MANIFEST_URL, BASE_URL, status, error, progress, closure,
                  workers, index, history >>

\* await resp.json() settles with the manifest mf; q is copied and the
\* workers are started, each running up to its first await; then buildIndex
\* waits on Promise.all(workers).
LibManifestJson(o, mf) ==
  /\ prog = "lib"
  /\ pc = "manifestJson"
  /\ IF o = "ok"
       THEN LET n  == Len(mf)
                k  == Min(concurrency, n)
                L0 == [ queue |-> mf, total |-> n,
                        chain |-> [ i \in 1..k |-> IdleChain("new") ],
                        claimCount |-> claimCount, requests |-> requests ]
                L  == StartWorkers(L0, 1, k)
            IN /\ manifest' = mf
               /\ queue' = L.queue
               /\ done' = 0
               /\ chain' = L.chain
               /\ claimCount' = L.claimCount
               /\ requests' = L.requests
               /\ pc' = "join"
               /\ UNCHANGED promise
       ELSE /\ Reject
            /\ UNCHANGED << manifest, queue, done, chain, claimCount, requests >>
  /\ settled' = [ settled EXCEPT !.manifestBody = o ]
  /\ UNCHANGED << searchVars, savedVars, tokenVars, pageVars, prog, MANIFEST_URL, BASE_URL, status, error, progress, urls, concurrency,
                  urlqueue, active, index, failedPos, published, completed >>

LibFrame ==
  UNCHANGED << searchVars, savedVars, tokenVars, pageVars, prog, MANIFEST_URL, BASE_URL, pc, status, error, progress, promise, closure,
               urlqueue, active, inverted, fuse, settled >>

\* fetchText returned content to worker i: the document is pushed and
\* counted, onProgress is called, and the loop goes round.
LibComplete(i, content, fellBack) ==
  LET c == chain[i]
      L == worker([ queue |-> queue, total |-> Len(manifest), chain |-> chain,
                    claimCount |-> claimCount, requests |-> requests ], i)
  IN /\ docs' = Append(docs, LibDoc(c.filename, content))
     /\ done' = done + 1
     /\ published' = Append(published, [ done |-> done + 1, total |-> Len(manifest) ])
     /\ completed' = Append(completed, c.pos)
     /\ failedPos' = IF fellBack THEN failedPos \cup {c.pos} ELSE failedPos
     /\ queue' = L.queue
     /\ chain' = L.chain
     /\ claimCount' = L.claimCount
     /\ requests' = L.requests

LibAwait(i, st, o) ==
  /\ chain' = [ chain EXCEPT ![i].st = st, ![i].outcomes = Append(@, o) ]
  /\ UNCHANGED << queue, done, docs, history >>

\* const r = await fetch(url) settles in fetchText.  A non-success status
\* issues the fetch of the raw name; a rejection is caught and '' returned.
LibEncResponse(i, o) ==
  /\ prog = "lib"
  /\ i \in DOMAIN chain
  /\ chain[i].st = "fetchEnc"
  /\ CASE o = "ok"    -> LibAwait(i, "textEnc", o)
       [] o = "notok" ->
            /\ chain' = [ chain EXCEPT ![i].st = "fetchRaw",
                                       ![i].outcomes = Append(@, o),
                                       ![i].paths = Append(@, chain[i].filename) ]
            /\ requests' = [ requests EXCEPT !.docs = @ + 1 ]
            /\ UNCHANGED << queue, done, docs, claimCount, failedPos, published, completed >>
       [] o = "throw" -> LibComplete(i, <<>>, TRUE)
  /\ LibFrame

\* const r2 = await fetch(baseUrl + filename) settles; if (!r2.ok) throw.
LibRawResponse(i, o) ==
  /\ prog = "lib"
  /\ i \in DOMAIN chain
  /\ chain[i].st = "fetchRaw"
  /\ IF o = "ok" THEN LibAwait(i, "textRaw", o) ELSE LibComplete(i, <<>>, TRUE)
  /\ LibFrame

\* return await r.text() / return await r2.text() settles.
LibReadText(i, st, o, body) ==
  /\ prog = "lib"
  /\ i \in DOMAIN chain
  /\ chain[i].st = st
  /\ IF o = "ok" THEN LibComplete(i, body, FALSE) ELSE LibComplete(i, <<>>, TRUE)
  /\ LibFrame

LibEncText(i, o, body) == LibReadText(i, "textEnc", o, body)

LibRawText(i, o, body) == LibReadText(i, "textRaw", o, body)

\* await Promise.all(workers) settles: the Fuse index is built over docs and
\* buildIndex returns { search }.
LibJoin ==
  /\ prog = "lib"
  /\ pc = "join"
  /\ AllResolved
  /\ fuse' = [ created |-> TRUE, docs |-> docs ]
  /\ promise' = "fulfilled"
  /\ pc' = "end"
  /\ UNCHANGED << searchVars, savedVars, tokenVars, pageVars, prog, MANIFEST_URL, BASE_URL, status, error, progress, closure,
                  workers, docs, inverted, history, settled >>

LibNext ==
  \/ \E opt \in ConcurrencyOptions : LibCall(opt)
  \/ \E o \in FetchOutcomes : LibManifestResponse(o)
  \/ \E o \in BodyOutcomes, mf \in Manifests : LibManifestJson(o, mf)
  \/ \E i \in DOMAIN chain, o \in FetchOutcomes : LibEncResponse(i, o)
  \/ \E i \in DOMAIN chain, o \in BodyOutcomes, body \in Bodies : LibEncText(i, o, body)
  \/ \E i \in DOMAIN chain, o \in FetchOutcomes : LibRawResponse(i, o)
  \/ \E i \in DOMAIN chain, o \in BodyOutcomes, body \in Bodies : LibRawText(i, o, body)
  \/ LibJoin

Next == AppNext \/ LibNext

Spec == Init /\ [][Next]_vars

\* ------------------------------------------- SearchPage: the run under fairness

\* The steps of SearchPage's indexing run with every document body empty
\* (the control flow of the run does not read the text of a body).
FairNext ==
  \/ Mount
  \/ \E o \in FetchOutcomes : ManifestResponse(o)
  \/ \E o \in BodyOutcomes, mf \in Manifests : ManifestJson(o, mf)
  \/ \E o \in FetchOutcomes : UrlsResponse(o)
  \/ \E o \in BodyOutcomes, m \in 0..MaxUrls, hc \in HardwareConcurrencies : UrlsJson(o, m, hc)
  \/ \E i \in DOMAIN chain, o \in FetchOutcomes : EncResponse(i, o)
  \/ \E i \in DOMAIN chain, o \in BodyOutcomes : EncText(i, o, <<>>)
  \/ \E i \in DOMAIN chain, o \in FetchOutcomes : RawResponse(i, o)
  \/ \E i \in DOMAIN chain, o \in BodyOutcomes : RawText(i, o, <<>>)
  \/ \E i \in DOMAIN chain : TimerFire(i)
  \/ Join

FairInit == Init /\ prog = "app"

\* The run under the assumption that every issued fetch, every read of a
\* body and every armed timer eventually settles: the event loop runs a
\* continuation that is ready, so some step is taken while one is possible.
FairSpec == FairInit /\ [][FairNext]_vars /\ WF_vars(FairNext)

\* ============================================================ queries: texts

\* trim that returns the text as it is.
untrimmed(s) == s

\* String.prototype.trim (the texts here hold no other white space).
trim(s) ==
  LET ks == { k \in DOMAIN s : s[k] # " " }
  IN IF ks = {} THEN <<>>
     ELSE SubSeq(s, CHOOSE k \in ks : \A j \in ks : k <= j,
                    CHOOSE k \in ks : \A j \in ks : k >= j)

\* sub occurs in s at (1-based) position k.
StartsAt(s, sub, k) ==
  /\ k + Len(sub) - 1 <= Len(s)
  /\ SubSeq(s, k, k + Len(sub) - 1) = sub

\* String.prototype.indexOf: the 0-based position of the first occurrence, -1
\* when there is none.
indexOf(s, sub) ==
  LET ks == { k \in 1..(Len(s) + 1) : StartsAt(s, sub, k) }
  IN IF ks = {} THEN -1 ELSE (CHOOSE k \in ks : \A j \in ks : k <= j) - 1

\* String.prototype.includes
includes(s, sub) == indexOf(s, sub) # -1

\* String.prototype.slice(from, to) / Array.prototype.slice(from, to) with a
\* 0-based, in-range from; a negative to counts from the end.
slice(s, from, to) ==
  SubSeq(s, from + 1, IF to < 0 THEN Max(Len(s) + to, 0) ELSE Min(to, Len(s)))

\* The characters escapeRegex escapes and search() deletes.
RegexSpecials == {".", "*", "+", "?", "^", "$", "{", "}", "(", ")", "|", "[", "]", "\\"}

\* str.replace(/[.*+?^${}()|[\]\\]/g, "\\$&")
RECURSIVE escapeRegex(_)
escapeRegex(str) ==
  IF str = <<>> THEN <<>>
  ELSE (IF Head(str) \in RegexSpecials THEN << "\\", Head(str) >> ELSE << Head(str) >>)
         \o escapeRegex(Tail(str))

\* lower.replace(/[.*+?^${}()|[\]\\]/g, '')
DropSpecials(str) == SelectSeq(str, LAMBDA c : c \notin RegexSpecials)

\* new RegExp(source, "g") for a source without unescaped special characters:
\* the literal text the expression matches.
RECURSIVE RegExpLiteral(_)
RegExpLiteral(source) ==
  IF source = <<>> THEN <<>>
  ELSE IF Head(source) = "\\" /\ Len(source) >= 2
    THEN << source[2] >> \o RegExpLiteral(Tail(Tail(source)))
    ELSE << Head(source) >> \o RegExpLiteral(Tail(source))

\* The matches of a global literal expression in s from position k on, found
\* left to right without overlap.
RECURSIVE CountFrom(_, _, _)
CountFrom(s, lit, k) ==
  IF k > Len(s) THEN 0
  ELSE IF StartsAt(s, lit, k) THEN 1 + CountFrom(s, lit, k + Len(lit))
  ELSE CountFrom(s, lit, k + 1)

\* (s.match(new RegExp(source, "g")) || []).length; the empty expression
\* matches before every character and at the end.
matchCount(s, source) ==
  LET lit == RegExpLiteral(source)
  IN IF lit = <<>> THEN Len(s) + 1 ELSE CountFrom(s, lit, 1)

\* The order of the characters in the collation localeCompare uses, case
\* apart: white space, punctuation, digits, letters.
CollationOrder ==
  << " ", "_", "-", ",", ";", ":", "!", "?", ".", "\"", "(", ")" >>
    \o DigitChars \o LowerChars

CollationRank ==
  [ c \in Range(CollationOrder) |->
      CHOOSE k \in DOMAIN CollationOrder : CollationOrder[k] = c ]

\* The primary weight of a character: its rank, whatever its case.
Primary(c) ==
  IF LowerChar(c) \in DOMAIN CollationRank THEN CollationRank[LowerChar(c)]
  ELSE Len(CollationOrder) + 1

\* The comparison at the primary level: -1, 0 or 1.
RECURSIVE ComparePrimary(_, _)
ComparePrimary(a, b) ==
  IF a = <<>> THEN (IF b = <<>> THEN 0 ELSE -1)
  ELSE IF b = <<>> THEN 1
  ELSE IF Primary(Head(a)) < Primary(Head(b)) THEN -1
  ELSE IF Primary(Head(a)) > Primary(Head(b)) THEN 1
  ELSE ComparePrimary(Tail(a), Tail(b))

\* The comparison of two texts equal at the primary level: at the first
\* difference in case the lower-case letter comes first.
RECURSIVE CompareCase(_, _)
CompareCase(a, b) ==
  IF a = <<>> \/ b = <<>> THEN 0
  ELSE IF Head(a) = Head(b) THEN CompareCase(Tail(a), Tail(b))
  ELSE IF Head(a) \in UpperSet THEN 1 ELSE -1

\* String.prototype.localeCompare
localeCompare(a, b) ==
  IF ComparePrimary(a, b) # 0 THEN ComparePrimary(a, b) ELSE CompareCase(a, b)

\* ================================================= SearchPage: doSearch(q)

\* makeExcerpt's default len, the slice of a fuzzy hit without phrase, the
\* candidate count up to which a small Fuse is built, the limit of a Fuse
\* search, and the number of papers the question branch summarises.
ExcerptLen == 220
FuzzySliceLen == 250
SmallFuseMax == 600
FuseLimit == 500
MaxPapers == 3

\* The character U+2026 makeExcerpt puts where it cut.
Ellipsis == "..."

\* makeExcerpt that puts the closing marker also when the window ends where
\* the content ends.
makeExcerptMarksEnd(content, idx, len) ==
  LET start   == Max(0, idx - (len \div 2))
      snippet == slice(content, start, Min(Len(content), start + len))
  IN (IF start > 0 THEN << Ellipsis >> ELSE <<>>) \o snippet
       \o (IF start + len <= Len(content) THEN << Ellipsis >> ELSE <<>>)

\* makeExcerpt(content, idx, matchLen, len): matchLen is not used by the body.
makeExcerpt(content, idx, len) ==
  LET start   == Max(0, idx - (len \div 2))
      snippet == slice(content, start, Min(Len(content), start + len))
  IN (IF start > 0 THEN << Ellipsis >> ELSE <<>>) \o snippet
       \o (IF start + len < Len(content) THEN << Ellipsis >> ELSE <<>>)

\* const isQuoted = /^".+"$/.test(q)
isQuoted(q) == Len(q) >= 3 /\ q[1] = "\"" /\ q[Len(q)] = "\""

\* const phrase = isQuoted ? q.slice(1, -1).toLowerCase() : q.toLowerCase()
PhraseOf(q) ==
  IF isQuoted(q) THEN toLowerCase(slice(q, 1, Len(q) - 1)) ELSE toLowerCase(q)

\* The entry the title loop sets for d.
TitleHit(d, phrase) ==
  [ id |-> d.id, title |-> d.title, excerpt |-> d.title, score |-> 0,
    matches |-> matchCount(toLowerCase(d.title), escapeRegex(phrase)),
    content |-> d.content, url |-> d.url ]

\* The entry the content loop sets for d.
ContentHit(d, phrase) ==
  LET contentLower == toLowerCase(d.content)
      idx == indexOf(contentLower, phrase)
  IN [ id |-> d.id, title |-> d.title,
       excerpt |-> makeExcerpt(d.content, idx, ExcerptLen), score |-> 10,
       matches |-> matchCount(contentLower, escapeRegex(phrase)),
       content |-> d.content, url |-> d.url ]

\* hitsMap after hitsMap.set(e.id, e) for every entry e of entries, in order.
\* The keys of the document table are distinct, so each id is set at most
\* once: an id hitsMap holds keeps its place, the others are appended.
SetHits(hitsMap, entries) ==
  [ j \in DOMAIN hitsMap |->
      IF MapHas(entries, hitsMap[j].id) THEN MapGet(entries, hitsMap[j].id)
      ELSE hitsMap[j] ]
    \o SelectSeq(entries, LAMBDA e : ~MapHas(hitsMap, e.id))

\* The title loop with the lower-cased title stored as the entry's title.
TitlePhraseLower(allDocs, phrase, k, hitsMap) ==
  LET hit == SelectSeq(SubSeq(allDocs, k, Len(allDocs)),
                       LAMBDA d : includes(toLowerCase(d.title), phrase))
  IN SetHits(hitsMap, [ i \in DOMAIN hit |->
                         [ TitleHit(hit[i], phrase) EXCEPT
                             !.title = toLowerCase(hit[i].title) ] ])

\* 1) exact phrase in title: the loop over allDocs from entry k on.
TitlePhrase(allDocs, phrase, k, hitsMap) ==
  LET hit == SelectSeq(SubSeq(allDocs, k, Len(allDocs)),
                       LAMBDA d : includes(toLowerCase(d.title), phrase))
  IN SetHits(hitsMap, [ i \in DOMAIN hit |-> TitleHit(hit[i], phrase) ])

\* The content loop without "if (hitsMap.has(id)) continue".
ContentPhraseNoSkip(allDocs, phrase, k, hitsMap) ==
  LET hit == SelectSeq(SubSeq(allDocs, k, Len(allDocs)),
                       LAMBDA d : indexOf(toLowerCase(d.content), phrase) # -1)
  IN SetHits(hitsMap, [ i \in DOMAIN hit |-> ContentHit(hit[i], phrase) ])

\* 2) exact phrase in content: the loop over allDocs from entry k on.
ContentPhrase(allDocs, phrase, k, hitsMap) ==
  LET hit == SelectSeq(SubSeq(allDocs, k, Len(allDocs)),
                       LAMBDA d : /\ ~MapHas(hitsMap, d.id)
                                  /\ indexOf(toLowerCase(d.content), phrase) # -1)
  IN SetHits(hitsMap, [ i \in DOMAIN hit |-> ContentHit(hit[i], phrase) ])

\* The candidate set while it is narrowed: isNull / ids are candidateIds, inv
\* is the inverted index as the deletes leave it, alias names the token whose
\* posting set candidateIds is (<<>>: a Set of its own), stop is the break.
NoCandidates(inv) ==
  [ isNull |-> TRUE, ids |-> {}, alias |-> <<>>, inv |-> inv, stop |-> FALSE ]

\* candidateIds = set: the posting set of t itself, not a copy.
SameSet(C, t) == [ C EXCEPT !.isNull = FALSE, !.ids = C.inv[t], !.alias = t ]

\* candidateIds = new Set(set)
NewSet(C, t) == [ C EXCEPT !.isNull = FALSE, !.ids = C.inv[t], !.alias = <<>> ]

\* candidateIds.delete(id) for every id of gone.
DeleteAll(C, gone) ==
  [ C EXCEPT !.ids = @ \ gone,
             !.inv = IF C.alias = <<>> THEN @
                     ELSE [ @ EXCEPT ![C.alias] = @ \ gone ] ]

\* The loop over the query tokens passing over a token without posting set.
RECURSIVE NarrowSkipsUnknown(_, _)
NarrowSkipsUnknown(C, tokens) ==
  IF tokens = <<>> \/ C.stop THEN C
  ELSE LET t == Head(tokens)
       IN IF t \notin DOMAIN C.inv
            THEN NarrowSkipsUnknown(C, Tail(tokens))
            ELSE LET C1 == IF C.isNull THEN NewSet(C, t)
                           ELSE DeleteAll(C, C.ids \ C.inv[t])
                 IN NarrowSkipsUnknown([ C1 EXCEPT !.stop = (C1.ids = {}) ], Tail(tokens))

\* 3) the loop over the query tokens.
RECURSIVE Narrow(_, _)
Narrow(C, tokens) ==
  IF tokens = <<>> \/ C.stop THEN C
  ELSE LET t == Head(tokens)
       IN IF t \notin DOMAIN C.inv
            THEN [ C EXCEPT !.isNull = FALSE, !.ids = {}, !.alias = <<>>, !.stop = TRUE ]
            ELSE LET C1 == IF C.isNull THEN NewSet(C, t)
                           ELSE DeleteAll(C, C.ids \ C.inv[t])
                 IN Narrow([ C1 EXCEPT !.stop = (C1.ids = {}) ], Tail(tokens))

\* Candidates without the fallback to all documents.
CandidatesNoFallback(allDocs, inv, tokens) ==
  [ Narrow(NoCandidates(inv), tokens) EXCEPT !.isNull = FALSE ]

\* candidateIds before the exact-phrase hits are removed: the narrowed set,
\* or all keys of the document table when no token narrowed it.
Candidates(allDocs, inv, tokens) ==
  LET C == Narrow(NoCandidates(inv), tokens)
  IN IF C.isNull THEN [ C EXCEPT !.isNull = FALSE, !.ids = MapKeys(allDocs) ] ELSE C

\* for (const id of hitsMap.keys()) candidateIds.delete(id)
Remaining(C, hitsMap) == DeleteAll(C, MapKeys(hitsMap))

\* Array.from(candidateIds).map((id) => allDocs.get(id))
CandidateArray(allDocs, ids) == SelectSeq(allDocs, LAMBDA d : d.id \in ids)

\* The fuzzy search always run on a small Fuse over the candidates.
FuseInputScoped(allDocs, f, ids) ==
  IF ids = {} THEN <<>> ELSE CandidateArray(allDocs, ids)

\* The collection the fuzzy search of doSearch runs on: none, the candidates
\* (a small Fuse), or what the global Fuse instance holds.
FuseInput(allDocs, f, ids) ==
  IF ids = {} THEN <<>>
  ELSE IF Cardinality(ids) <= SmallFuseMax THEN CandidateArray(allDocs, ids)
  ELSE IF f.created THEN f.docs ELSE <<>>

\* The dissimilarities a Fuse result can carry, in thousandths; NoScore is a
\* result without score.
NoScore == -1
FuseScores == {0, 445, 1000, NoScore}

\* What Fuse.search can return on a collection: up to limit results, each an
\* item of the collection, no item twice.  A negative limit is no limit.
FuseResults(coll, limit) ==
  UNION { { [ j \in 1..n |-> [ item |-> coll[f[j]], score |-> sc[j] ] ] :
              f \in { g \in [ 1..n -> DOMAIN coll ] :
                        \A i, j \in 1..n : i # j => g[i] # g[j] },
              sc \in [ 1..n -> FuseScores ] } :
          n \in 0..(IF limit < 0 THEN Len(coll) ELSE Min(Len(coll), limit)) }

\* The score of a fuzzy hit without the offset: Math.round((fr.score ?? 1) * 100)
FuzzyScoreNoOffset(s) == ((IF s = NoScore THEN 1000 ELSE s) + 5) \div 10

\* Math.round((fr.score ?? 1) * 100) + 50
FuzzyScore(s) == (((IF s = NoScore THEN 1000 ELSE s) + 5) \div 10) + 50

\* The excerpt of a fuzzy hit.
FuzzyExcerpt(d, q, len) ==
  LET pos == indexOf(toLowerCase(d.content), toLowerCase(q))
  IN IF pos # -1 THEN makeExcerpt(d.content, pos, ExcerptLen)
     ELSE slice(d.content, 0, len)
            \o (IF Len(d.content) > len THEN << Ellipsis >> ELSE <<>>)

\* Combine fuzzy results into hitsMap (skip those already included).
RECURSIVE MergeFuzzy(_, _, _)
MergeFuzzy(hitsMap, fuzzyResults, q) ==
  IF fuzzyResults = <<>> THEN hitsMap
  ELSE LET d == Head(fuzzyResults).item
       IN MergeFuzzy(
            IF MapHas(hitsMap, d.id) THEN hitsMap
            ELSE MapSet(hitsMap,
                   [ id |-> d.id, title |-> d.title,
                     excerpt |-> FuzzyExcerpt(d, q, FuzzySliceLen),
                     score |-> FuzzyScore(Head(fuzzyResults).score), matches |-> 0,
                     content |-> d.content, url |-> d.url ]),
            Tail(fuzzyResults), q)

\* The comparison function: the hits in the order they were inserted.
unsorted(a, b) == 0

\* The comparison function of hitsArr.sort / hits.sort.
compareHits(a, b) ==
  IF a.score # b.score THEN a.score - b.score
  ELSE IF b.matches # a.matches THEN b.matches - a.matches
  ELSE localeCompare(a.title, b.title)

\* Array.prototype.sort (stable): x is put behind the last element that
\* does not come after it.
InsertHit(sorted, x) ==
  LET before == { k \in DOMAIN sorted : compareHits(sorted[k], x) <= 0 }
      at     == IF before = {} THEN 0 ELSE CHOOSE k \in before : \A j \in before : k >= j
  IN SubSeq(sorted, 1, at) \o << x >> \o SubSeq(sorted, at + 1, Len(sorted))

RECURSIVE SortHits(_, _)
SortHits(hits, sorted) ==
  IF hits = <<>> THEN sorted ELSE SortHits(Tail(hits), InsertHit(sorted, Head(hits)))

\* The text AIU resolves with (askGPT catches its own errors and then returns
\* "ERROR"), and the entry the question branch builds from it.
AITexts == { <<"E","R","R","O","R">>, <<"o","k">> }

AISummary(text, hitsArr) ==
  [ id |-> <<"A","I">>,
    title |-> <<"A","I"," ","S","u","m","m","a","r","y">>,
    excerpt |-> text \o <<"\n"," ","P","a","p","e","r","s"," ","C","i","t","e","d",":"," ">>
                  \o hitsArr[1].title,
    score |-> 0, matches |-> 1, content |-> <<>>, url |-> <<>> ]

\* The texts typed into the search box.
Queries ==
  { <<>>, <<" ">>, <<"a">>, <<" ","m","a","r","s"," ">>, <<"M","a","r","s"," ","a">>,
    <<"\"","b"," ","c","\"">>, <<"z"," ","a">>, <<"!">>, <<"?">>, <<"a","?">> }

\* What a query leaves alone: the indexing run.
SearchFrame ==
  UNCHANGED << savedVars, tokenVars, pageVars, prog, MANIFEST_URL, BASE_URL, pc, status, error, progress, promise, closure,
               workers, history, settled >>

\* No query was run yet.  A behaviour follows one query: what a query
\* returns does not depend on the queries before it.
NoQueryYet == asked = NotAsked

\* doSearch(q0), up to its first await or to its end, following the result
\* lists of up to most results the Fuse search can return.  hitsMap (after
\* the two phrase loops) and candidateIds (C) are each the one element of a
\* set: a value computed once for all result lists.
doSearchUpTo(q0, most) ==
  LET q == trim(q0)
  IN /\ prog = "app"
     /\ NoQueryYet
     /\ asked' = [ called |-> TRUE, q |-> q0, max |-> 0 ]
     /\ query' = q
     /\ UNCHANGED raised
     /\ IF q = <<>>
          THEN /\ results' = <<>>
               /\ reads' = {}
               /\ pending' = NoCall
               /\ UNCHANGED index
          ELSE \E hitsMap \in { ContentPhrase(docs, PhraseOf(q), 1,
                                   TitlePhrase(docs, PhraseOf(q), 1, <<>>)) } :
               \E C \in { Remaining(Candidates(docs, inverted, tokenize(q)), hitsMap) } :
               \E fuzzyResults \in FuseResults(FuseInput(docs, fuse, C.ids), Min(FuseLimit, most)) :
                 LET hitsArr == SortHits(MergeFuzzy(hitsMap, fuzzyResults, q), <<>>)
                 IN /\ inverted' = C.inv
                    /\ UNCHANGED << docs, fuse >>
                    /\ reads' = {"docs", "inverted", "fuse"}
                    /\ IF includes(q, <<"?">>)
                         THEN /\ results' = <<>>
                              /\ pending' =
                                   [ st |-> IF hitsArr = <<>> THEN "answer" ELSE "summarise",
                                     hitsArr |-> hitsArr, count |-> 0 ]
                         ELSE /\ results' = hitsArr
                              /\ pending' = NoCall
     /\ SearchFrame

\* doSearch(q0) with every result list Fuse can return.
doSearch(q0) == doSearchUpTo(q0, FuseLimit)

\* An await AIU(...) of the question branch settles with text: the next
\* paper is sent to be summarised, or the answer is asked for, or the answer
\* has come and the result list becomes the one "AI Summary" entry
\* (hitsArr[0].title throws when there is no hit, which ends the call).
AIReply(text) ==
  /\ prog = "app"
  /\ pending.st \in {"summarise", "answer"}
  /\ IF pending.st = "summarise"
       THEN LET count == pending.count + 1
            IN /\ pending' =
                    [ pending EXCEPT
                        !.count = count,
                        !.st = IF count < MaxPapers /\ count < Len(pending.hitsArr)
                                 THEN "summarise" ELSE "answer" ]
               /\ UNCHANGED << results, raised >>
       ELSE /\ pending' = NoCall
            /\ results' = IF pending.hitsArr = <<>> THEN results
                          ELSE << AISummary(text, pending.hitsArr) >>
            /\ raised' = IF pending.hitsArr = <<>> THEN "TypeError" ELSE raised
  /\ UNCHANGED << query, reads, asked, index >>
  /\ SearchFrame

\* ------------------------------------------------ search.ts: search(q, max)

\* excerptFor's default len, the slice of a fuzzy hit without phrase, and
\* the default of max.
LibExcerptLen == 200
LibSliceLen == 200
LibMax == 20

\* The loop over docs from entry k on: exact phrase in title, else in content.
RECURSIVE LibPhrase(_, _, _, _)
LibPhrase(allDocs, lower, k, hits) ==
  IF k > Len(allDocs) THEN hits
  ELSE LET d == allDocs[k]
           titleLower   == toLowerCase(d.title)
           contentLower == toLowerCase(d.content)
           idx          == indexOf(contentLower, lower)
       IN LibPhrase(allDocs, lower, k + 1,
            IF includes(titleLower, lower)
              THEN Append(hits, [ id |-> d.id, title |-> d.title, excerpt |-> d.title,
                                  score |-> 0, matches |-> 1 ])
            ELSE IF idx # -1
              THEN Append(hits, [ id |-> d.id, title |-> d.title,
                                  excerpt |-> makeExcerpt(d.content, idx, LibExcerptLen),
                                  score |-> 10,
                                  matches |-> matchCount(contentLower, DropSpecials(lower)) ])
            ELSE hits)

\* The excerpt of a fuzzy hit of search().
LibFuzzyExcerpt(d, q) ==
  LET pos == indexOf(toLowerCase(d.content), toLowerCase(q))
  IN IF pos # -1 THEN makeExcerpt(d.content, pos, LibExcerptLen)
     ELSE slice(d.content, 0, LibSliceLen)
            \o (IF Len(d.content) > LibSliceLen THEN << Ellipsis >> ELSE <<>>)

\* The loop over fuseResults: skip if already included.
RECURSIVE LibMerge(_, _, _)
LibMerge(hits, fuseResults, q) ==
  IF fuseResults = <<>> THEN hits
  ELSE LET d == Head(fuseResults).item
       IN LibMerge(
            IF \E k \in DOMAIN hits : hits[k].id = d.id THEN hits
            ELSE Append(hits, [ id |-> d.id, title |-> d.title,
                                excerpt |-> LibFuzzyExcerpt(d, q),
                                score |-> FuzzyScore(Head(fuseResults).score),
                                matches |-> 0 ]),
            Tail(fuseResults), q)

\* The values of max search is called with: LibMax is the default.
MaxOptions == {-1, 0, 1, 2, LibMax}

\* search(q0, max) of the object buildIndex resolved with, following the
\* result lists of up to most results that fuse.search(q, {limit: max * 2})
\* can return.
searchUpTo(q0, max, most) ==
  LET q == trim(q0)
  IN /\ prog = "lib"
     /\ promise = "fulfilled"
     /\ NoQueryYet
     /\ asked' = [ called |-> TRUE, q |-> q0, max |-> max ]
     /\ query' = q
     /\ IF q = <<>>
          THEN results' = <<>> /\ reads' = {}
          ELSE \E fuseResults \in FuseResults(fuse.docs, IF max * 2 < 0 THEN most
                                                            ELSE Min(max * 2, most)) :
                 /\ results' = slice(SortHits(LibMerge(LibPhrase(docs, toLowerCase(q), 1, <<>>),
                                                       fuseResults, q), <<>>),
                                     0, max)
                 /\ reads' = {"docs", "fuse"}
     /\ UNCHANGED << pending, raised, index >>
     /\ SearchFrame

\* search(q0, max), with every result list Fuse can return.
search(q0, max) == searchUpTo(q0, max, Len(fuse.docs))

\* ------------------------------------------- the states queries are run in

\* How many documents the indexes hold when the queries are run.
MaxIndexed == 2

\* The bodies of the documents queries are run on (one has a question mark).
CorpusBodies == Bodies \cup { <<"m","a","r","s"," ","M","a","r","s">>, <<"a","?">> }

\* The orders in which the n documents complete: manifest order and its
\* reverse.
Orders(n) == { [ k \in 1..n |-> k ], [ k \in 1..n |-> n + 1 - k ] }

\* The indexes of SearchPage after the documents at the manifest positions
\* order[k..] were indexed with the bodies contents[k..], on top of ix.
RECURSIVE IndexedFrom(_, _, _, _)
IndexedFrom(order, contents, k, ix) ==
  IF k > Len(order) THEN ix
  ELSE IndexedFrom(order, contents, k + 1,
         indexDoc(ix.docs, ix.inverted, ix.fuse,
                  AppDoc(FileName(order[k]), contents[k], UrlEntry(order[k])), FALSE))

\* SearchPage at 'ready' after a run in which the n manifest entries and the
\* n entries of the URL list were all fetched at the first attempt, the
\* documents completing in the given order with the given bodies.
AppReady(n, order, contents) ==
  LET ix == IndexedFrom(order, contents, 1,
              [ docs |-> <<>>, inverted |-> << >>,
                fuse |-> [ created |-> TRUE, docs |-> <<>> ] ])
  IN /\ prog = "app"
     /\ MANIFEST_URL = "set" /\ BASE_URL = "set"
     /\ pc = "end" /\ status = "ready" /\ error = "" /\ promise = "none"
     /\ progress = [ done |-> n, total |-> n ]
     /\ manifest = ManifestOf(n) /\ urls = UrlsOf(n) /\ concurrency = Concurrency(0)
     /\ queue = <<>> /\ urlqueue = <<>> /\ active = 0 /\ done = n
     /\ chain = [ i \in 1..Concurrency(0) |-> IdleChain("resolved") ]
     /\ docs = ix.docs /\ inverted = ix.inverted /\ fuse = ix.fuse
     /\ requests = [ manifest |-> 1, urls |-> 1, docs |-> n ]
     /\ settled = [ manifest |-> "ok", manifestBody |-> "ok", urls |-> "ok", urlsBody |-> "ok" ]
     /\ claimCount = [ p \in 1..MaxDocs |-> IF p <= n THEN 1 ELSE 0 ]
     /\ failedPos = {}
     /\ published = << [ done |-> 0, total |-> n ] >>
                      \o [ k \in 1..n |-> [ done |-> k, total |-> n ] ]
     /\ completed = order

\* buildIndex resolved, after a run of the same kind with one worker per
\* manifest entry.
LibReady(n, order, contents) ==
  LET list == [ k \in 1..n |-> LibDoc(FileName(order[k]), contents[k]) ]
  IN /\ prog = "lib"
     /\ MANIFEST_URL = "set" /\ BASE_URL = "set"
     /\ pc = "end" /\ status = "idle" /\ error = "" /\ promise = "fulfilled"
     /\ progress = [ done |-> 0, total |-> 0 ]
     /\ manifest = ManifestOf(n) /\ urls = <<>> /\ concurrency = LibConcurrency(-1)
     /\ queue = <<>> /\ urlqueue = <<>> /\ active = 0 /\ done = n
     /\ chain = [ i \in 1..Min(LibConcurrency(-1), n) |-> IdleChain("resolved") ]
     /\ docs = list /\ inverted = << >> /\ fuse = [ created |-> TRUE, docs |-> list ]
     /\ requests = [ manifest |-> 1, urls |-> 0, docs |-> n ]
     /\ settled = [ manifest |-> "ok", manifestBody |-> "ok", urls |-> "", urlsBody |-> "" ]
     /\ claimCount = [ p \in 1..MaxDocs |-> IF p <= n THEN 1 ELSE 0 ]
     /\ failedPos = {}
     /\ published = [ k \in 1..n |-> [ done |-> k, total |-> n ] ]
     /\ completed = order

\* The states the queries start from: SearchPage just mounted, or either
\* program after a complete run over a manifest of up to MaxIndexed names.
SearchInit ==
  \/ Init /\ prog = "app"
  \/ /\ \E n \in 0..MaxIndexed : \E order \in Orders(n) : \E contents \in [ 1..n -> CorpusBodies ] :
          AppReady(n, order, contents) \/ LibReady(n, order, contents)
     /\ query = <<>>
     /\ results = <<>>
     /\ pending = NoCall
     /\ reads = {}
     /\ asked = NotAsked
     /\ raised = ""
     /\ Unsaved
     /\ Untokenized
     /\ NoResultsPage

\* Queries, and the effect of SearchPage up to its first await (which sets
\* 'indexing' or 'error'); the indexing run is not followed further here.
SearchNext ==
  \/ Mount
  \/ \E q0 \in Queries : doSearch(q0)
  \/ \E text \in AITexts : AIReply(text)
  \/ \E q0 \in Queries, max \in MaxOptions : search(q0, max)

SearchSpec == SearchInit /\ [][SearchNext]_vars

\* ------------------------------------------ buildIndex, then one search

\* The texts search is called with after a run of buildIndex.
LibQueries == { <<" ">>, <<"a">>, <<"z"," ","a">> }

\* buildIndex was not called yet.
LibInit == Init /\ prog = "lib"

\* The steps of buildIndex, and a call of search on the object it resolved
\* with (following the Fuse result lists of at most one result).
LibSearchNext ==
  \/ LibNext
  \/ \E q0 \in LibQueries, max \in MaxOptions : searchUpTo(q0, max, 1)

LibSpec == LibInit /\ [][LibSearchNext]_vars

\* ------------------------------- queries on a corpus above the Fuse threshold

\* The decimal digits of k.
RECURSIVE Digits(_)
Digits(k) ==
  IF k < 10 THEN << DigitChars[k + 1] >>
  ELSE Digits(k \div 10) \o << DigitChars[(k % 10) + 1] >>

\* The file name and the URL at position k of a manifest of distinct names.
LargeName(k) == <<"p">> \o Digits(k) \o <<".","t","x","t">>
LargeUrl(k) == <<"u">> \o Digits(k)

\* The body of the document at position k of n: the first one has the word
\* a only, the second the phrase "a b", all others the words b and a.
LargeBody(k, n) ==
  IF k = 1 THEN <<"a">>
  ELSE IF k = 2 THEN <<"a"," ","b">>
  ELSE <<"b"," ","a">>

\* The document table after the n documents were indexed in manifest order.
LargeDocs(n) == [ k \in 1..n |-> AppDoc(LargeName(k), LargeBody(k, n), LargeUrl(k)) ]

\* The three structures after indexDoc ran on each of the n documents (the
\* names are distinct: every posting set holds the ids of the documents
\* that have the token, and the Fuse instance holds each document once).
LargeIndex(n) ==
  LET table == LargeDocs(n)
      pairs == UNION { { << t, table[k].id >> :
                           t \in Range(tokenize(table[k].title))
                                   \cup Range(tokenize(table[k].content)) } :
                       k \in 1..n }
  IN [ docs     |-> table,
       inverted |-> [ t \in { p[1] : p \in pairs } |->
                        { p[2] : p \in { pp \in pairs : pp[1] = t } } ],
       fuse     |-> [ created |-> TRUE, docs |-> table ] ]

\* SearchPage at 'ready' after a run over n names in which every fetch
\* succeeded at the first attempt and the documents completed in manifest
\* order.
LargeReady(n) ==
  LET ix == LargeIndex(n)
  IN /\ prog = "app"
     /\ MANIFEST_URL = "set" /\ BASE_URL = "set"
     /\ pc = "end" /\ status = "ready" /\ error = "" /\ promise = "none"
     /\ progress = [ done |-> n, total |-> n ]
     /\ manifest = [ k \in 1..n |-> LargeName(k) ]
     /\ urls = [ k \in 1..n |-> LargeUrl(k) ]
     /\ concurrency = Concurrency(0)
     /\ queue = <<>> /\ urlqueue = <<>> /\ active = 0 /\ done = n
     /\ chain = [ i \in 1..Concurrency(0) |-> IdleChain("resolved") ]
     /\ docs = ix.docs /\ inverted = ix.inverted /\ fuse = ix.fuse
     /\ requests = [ manifest |-> 1, urls |-> 1, docs |-> n ]
     /\ settled = [ manifest |-> "ok", manifestBody |-> "ok", urls |-> "ok", urlsBody |-> "ok" ]
     /\ claimCount = [ p \in 1..MaxDocs |-> 1 ]
     /\ failedPos = {}
     /\ published = << [ done |-> 0, total |-> n ] >>
                      \o [ k \in 1..n |-> [ done |-> k, total |-> n ] ]
     /\ completed = [ k \in 1..n |-> k ]

\* The corpus: the phrase hit and SmallFuseMax + 1 further documents have
\* both words, one document has not.
LargeInit ==
  /\ LargeReady(SmallFuseMax + 3)
  /\ query = <<>>
  /\ results = <<>>
  /\ pending = NoCall
  /\ reads = {}
  /\ asked = NotAsked
  /\ raised = ""
  /\ Unsaved
  /\ Untokenized
  /\ NoResultsPage

\* The query typed on that corpus.
LargeQueries == { <<"a"," ","b">> }

\* On that corpus the Fuse result lists of at most one result are followed.
LargeNext == \E q0 \in LargeQueries : doSearchUpTo(q0, 1)

LargeSpec == LargeInit /\ [][LargeNext]_vars

\* -------------------------------------- ResultsContext.tsx: ResultsProvider

\* How many identifiers the records offered for saving have.
MaxSaved == 3

\* The records the result pages call toggleSaved with: a result for one of
\* the files, with the score of the query that returned it.
SavedItems ==
  { [ id |-> FileName(k), title |-> StripTxt(FileName(k)), score |-> sc ] :
      k \in 1..MaxSaved, sc \in {0, 10} }

\* The saved lists localStorage can hold when the provider mounts: none, or
\* one record.
StoredLists == { <<>> } \cup { << x >> : x \in SavedItems }

\* The lists data.saved of the user's server document can hold: nothing, one
\* record, or two records with the same identifier.
ServerLists ==
  { <<>> } \cup { << x >> : x \in SavedItems }
           \cup { p \in SavedItems \X SavedItems : p[1].id = p[2].id }

\* toggleSaved that puts the record in front whether or not its identifier
\* is saved.
ToggleAlwaysAdds(prev, item) == << item >> \o prev

\* The updater of toggleSaved: next, computed from prev and item.
ToggleNext(prev, item) ==
  IF \E k \in DOMAIN prev : prev[k].id = item.id
    THEN SelectSeq(prev, LAMBDA p : p.id # item.id)
    ELSE << item >> \o prev

\* map.set(s.id, s) for every element of list from entry k on.
RECURSIVE SetAll(_, _, _)
SetAll(map, list, k) ==
  IF k > Len(list) THEN map ELSE SetAll(MapSet(map, list[k]), list, k + 1)

\* The updater of the sign-in effect: the server's records first, then the
\* local records whose identifier the server does not have.
Merged(serverSaved, local) ==
  LET map == SetAll(<<>>, serverSaved, 1)
  IN map \o SelectSeq(local, LAMBDA p : ~MapHas(map, p.id))

\* What ResultsProvider leaves alone: SearchPage and its queries.  (The
\* writes to localStorage and to the server document are not read back while
\* the provider is mounted.)
SavedFrame ==
  UNCHANGED << searchVars, tokenVars, pageVars, prog, MANIFEST_URL, BASE_URL, pc, status, error, progress, promise,
               closure, workers, index, history, settled >>

\* How many setDoc calls are followed in flight at a time.
MaxWrites == 1

\* toggleSaved(item): the updater, and for a signed-in user
\* setDoc(dref, { saved: next }, { merge: true }) is issued.
toggleSaved(item) ==
  /\ prog = "app"
  /\ currentUser = "" \/ Len(setDocs) < MaxWrites
  /\ saved' = ToggleNext(saved, item)
  /\ toggled' = [ called |-> TRUE, item |-> item, before |-> saved ]
  /\ setDocs' = IF currentUser = "" THEN setDocs ELSE Append(setDocs, ToggleNext(saved, item))
  /\ touched' = touched \cup { item.id }
  /\ UNCHANGED << currentUser, server, getDoc, atSignIn >>
  /\ SavedFrame

\* The updater of the sign-in effect is applied to the saved list.
MergeLists(serverSaved) ==
  /\ saved' = Merged(serverSaved, saved)
  /\ toggled' = NoToggle

\* The sign-in effect read the user's server document and merges its saved
\* list with the local one.
MergeServerSaved(serverSaved) ==
  /\ prog = "app"
  /\ MergeLists(serverSaved)
  /\ UNCHANGED serverVars
  /\ SavedFrame

\* The provider mounted with the list localStorage holds.
SavedInit ==
  /\ Constructed
  /\ prog = "app"
  /\ saved \in StoredLists
  /\ toggled = NoToggle
  /\ SignedOut
  /\ Untokenized
  /\ NoResultsPage

SavedNext ==
  \/ \E item \in SavedItems : toggleSaved(item)
  \/ \E serverSaved \in ServerLists : MergeServerSaved(serverSaved)

SavedSpec == SavedInit /\ [][SavedNext]_vars

\* ------------------------ ResultsProvider: sign-in while records are toggled

\* The user's server document at sign-in: missing, or holding a saved list.
ServerDocs ==
  { [ exists |-> FALSE, saved |-> <<>> ] } \cup { [ exists |-> TRUE, saved |-> l ] : l \in ServerLists }

\* What the sign-in steps leave alone of the provider's state.
SignInFrame == UNCHANGED << touched >> /\ SavedFrame

\* onAuthStateChanged calls back with the user (currentUser is set):
\* getDoc(dref) is issued.
SignIn ==
  /\ prog = "app"
  /\ currentUser = ""
  /\ currentUser' = "uid"
  /\ getDoc' = [ getDoc EXCEPT !.st = "sent" ]
  /\ atSignIn' = MapKeys(server.saved)
  /\ UNCHANGED << saved, toggled, server, setDocs >>
  /\ SignInFrame

\* The server answers the getDoc with the document as it is, or the read
\* fails.
GetDocServed(o) ==
  /\ prog = "app"
  /\ getDoc.st = "sent"
  /\ getDoc' = IF o = "ok" THEN [ getDoc EXCEPT !.st = "read", !.snap = server ]
               ELSE [ getDoc EXCEPT !.st = "failed" ]
  /\ UNCHANGED << saved, toggled, currentUser, server, setDocs, atSignIn >>
  /\ SignInFrame

\* await getDoc(dref) resumes: when the document exists (and data.saved is
\* an array) the updater merges the snapshot's list with the local one.
GetDocResolved ==
  /\ prog = "app"
  /\ getDoc.st = "read"
  /\ getDoc' = [ getDoc EXCEPT !.st = IF getDoc.snap.exists THEN "merged" ELSE "done",
                               !.local = saved ]
  /\ IF getDoc.snap.exists THEN MergeLists(getDoc.snap.saved)
     ELSE UNCHANGED << saved, toggled >>
  /\ UNCHANGED << currentUser, server, setDocs, atSignIn >>
  /\ SignInFrame

\* The server applies the oldest setDoc in flight ({ merge: true } replaces
\* the field saved as a whole), or the write fails, which toggleSaved
\* ignores.
SetDocServed(o) ==
  /\ prog = "app"
  /\ setDocs # <<>>
  /\ setDocs' = Tail(setDocs)
  /\ server' = IF o = "ok" THEN [ exists |-> TRUE, saved |-> Head(setDocs) ] ELSE server
  /\ UNCHANGED << saved, toggled, currentUser, getDoc, atSignIn >>
  /\ SignInFrame

\* The provider mounted with the list localStorage holds, nobody signed in.
SignInInit ==
  /\ Constructed
  /\ prog = "app"
  /\ MANIFEST_URL = "set" /\ BASE_URL = "set"
  /\ saved \in StoredLists
  /\ toggled = NoToggle
  /\ currentUser = ""
  /\ server \in ServerDocs
  /\ getDoc = NoRead
  /\ setDocs = <<>>
  /\ atSignIn = {}
  /\ touched = {}
  /\ Untokenized
  /\ NoResultsPage

\* The records toggled around the sign-in: two results of one query.
SignInItems == { x \in SavedItems : x.score = 10 /\ x.id \in { FileName(1), FileName(2) } }

SignInNext ==
  \/ \E item \in SignInItems : toggleSaved(item)
  \/ SignIn
  \/ \E o \in BodyOutcomes : GetDocServed(o)
  \/ GetDocResolved
  \/ \E o \in BodyOutcomes : SetDocServed(o)

SignInSpec == SignInInit /\ [][SignInNext]_vars

\* ------------------------------------------------------- tokenize on its own

\* The longest text tokenize is called with, and how often it is called on
\* one text.
MaxTextLen == 3
MaxCalls == 2

\* The characters of the texts: a lower-case and an upper-case letter, a
\* digit, white space, punctuation, and the underscore (a word character
\* for \w, not for [a-z0-9]).
TextChars == { "a", "B", "1", " ", "-", "_" }

\* The texts of up to n characters.
Texts(n) == UNION { [ 1..k -> TextChars ] : k \in 0..n }

\* The separators tokens are joined with: characters outside [a-z0-9].
Separators == { " ", "-", "." }

\* tokens.join(sep)
RECURSIVE join(_, _)
join(tokens, sep) ==
  IF tokens = <<>> THEN <<>>
  ELSE IF Len(tokens) = 1 THEN tokens[1]
  ELSE tokens[1] \o << sep >> \o join(Tail(tokens), sep)

\* What a call of tokenize leaves alone: everything but its record.
TokenFrame ==
  UNCHANGED << searchVars, savedVars, pageVars, prog, MANIFEST_URL, BASE_URL, pc, status, error, progress,
               promise, closure, workers, index, history, settled >>

\* tokenize(input) is called (by indexDoc on a title or content, by doSearch
\* on the query).
Tokenize ==
  /\ Len(calls) < MaxCalls
  /\ calls' = Append(calls, tokenize(input))
  /\ UNCHANGED << input, rejoined, excerpted >>
  /\ TokenFrame

\* The tokens the first call returned are joined with sep and tokenized.
Retokenize(sep) ==
  /\ calls # <<>>
  /\ ~rejoined.called
  /\ rejoined' = [ called |-> TRUE, sep |-> sep, tokens |-> tokenize(join(calls[1], sep)) ]
  /\ UNCHANGED << input, calls, excerpted >>
  /\ TokenFrame

\* The text is chosen.
TokenInit ==
  /\ Constructed
  /\ prog = "app"
  /\ Unsaved
  /\ input \in Texts(MaxTextLen)
  /\ calls = <<>>
  /\ rejoined = NoRejoin
  /\ excerpted = NoExcerpt
  /\ NoResultsPage

TokenNext ==
  \/ Tokenize
  \/ \E sep \in Separators : Retokenize(sep)

TokenSpec == TokenInit /\ [][TokenNext]_vars

\* ---------------------------------------- makeExcerpt / excerptFor on its own

\* The longest content an excerpt is taken from.
MaxContentLen == 250

\* The content of n characters: digits, with the character U+2026 at every
\* seventh place.
ContentOf(n) ==
  [ k \in 1..n |-> IF k % 7 = 0 THEN Ellipsis ELSE DigitChars[(k % 10) + 1] ]

\* makeExcerpt(content, idx, matchLen) of SearchPage, excerptFor(content, idx)
\* of buildIndex: len has its default.
MakeExcerpt(content, idx) ==
  LET len == IF prog = "app" THEN ExcerptLen ELSE LibExcerptLen
  IN /\ ~excerpted.called
     /\ excerpted' = [ called |-> TRUE, content |-> content, idx |-> idx, len |-> len,
                       out |-> makeExcerpt(content, idx, len) ]
     /\ UNCHANGED << input, calls, rejoined >>
     /\ TokenFrame

\* The pages are constructed; no excerpt was taken.
ExcerptInit == Init /\ MANIFEST_URL = "set" /\ BASE_URL = "set"

\* The excerpt is taken at a match index: a position of the content.
ExcerptNext ==
  /\ ~excerpted.called
  /\ \E n \in 1..MaxContentLen : \E idx \in 0..(n - 1) : MakeExcerpt(ContentOf(n), idx)

ExcerptSpec == ExcerptInit /\ [][ExcerptNext]_vars

\* ------------------------------------------- pages/results.tsx: ResultsPage

\* The most results the page is opened with.
MaxResults == 11

\* The options of the page-size select.
PageSizes == {5, 10, 20, 50}

\* fuse.search(trimmed, { limit: 1000 })
RefineLimit == 1000

\* The k-th result of a search, and the list of the first n: the titles carry
\* the word ab or the word bc in turn.
ResultItem(k) ==
  [ id |-> << DigitChars[(k \div 10) + 1], DigitChars[(k % 10) + 1] >>,
    title |-> IF k % 2 = 1 THEN <<"A","b">> ELSE <<"b","c">>,
    excerpt |-> <<>> ]

ResultList(n) == [ k \in 1..n |-> ResultItem(k) ]

\* The texts typed into the refine box.
RefineQueries == { <<>>, <<"a","b">>, <<" ","b","c">> }

\* What fuse.search can return on the list: up to limit of its items from
\* some item on, going round the list.
RefineResults(list, limit) ==
  LET n == Len(list)
  IN { [ j \in 1..k |-> list[((r + j - 1) % n) + 1] ] :
         k \in 0..Min(n, limit), r \in 0..Max(n - 1, 0) }

\* The substring filter of the catch branch.
SubstringFilter(list, lower) ==
  SelectSeq(list, LAMBDA r : \/ includes(toLowerCase(r.title), lower)
                             \/ includes(toLowerCase(r.excerpt), lower))

\* Math.ceil(a / b) for a >= 0, b > 0.
Ceil(a, b) == (a + b - 1) \div b

\* const totalPages = Math.max(1, Math.ceil(results.length / pageSize))
totalPages == Max(1, Ceil(Len(listed), pageSize))

\* The render after a state change: useMemo computes pageResults from the
\* new results, page and pageSize.
Render(r, p, ps) == pageResults' = slice(r, (p - 1) * ps, p * ps)

\* What ResultsPage leaves alone.
PageFrame ==
  UNCHANGED << searchVars, savedVars, tokenVars, prog, MANIFEST_URL, BASE_URL, pc, status, error, progress,
               promise, closure, workers, index, history, settled >>

\* setPage(p) by a pagination button.
GoTo(p) ==
  /\ prog = "app"
  /\ page' = p
  /\ Render(listed, p, pageSize)
  /\ UNCHANGED << initialResults, listed, pageSize, activeQuery >>
  /\ PageFrame

\* The buttons First, Prev, Next and Last; First and Prev are disabled on
\* page 1, Next and Last on the last page.
First == page # 1 /\ GoTo(1)

Prev == page # 1 /\ GoTo(Max(1, page - 1))

NextPage == page # totalPages /\ GoTo(Min(totalPages, page + 1))

Last == page # totalPages /\ GoTo(totalPages)

\* The page-size select without setPage(1).
ChangePageSizeKeepsPage(n) ==
  /\ prog = "app"
  /\ pageSize' = n
  /\ Render(listed, page, n)
  /\ UNCHANGED << initialResults, listed, page, activeQuery >>
  /\ PageFrame

\* The page-size select: setPageSize(Number(e.target.value)); setPage(1).
ChangePageSize(n) ==
  /\ prog = "app"
  /\ pageSize' = n
  /\ page' = 1
  /\ Render(listed, 1, n)
  /\ UNCHANGED << initialResults, listed, activeQuery >>
  /\ PageFrame

\* performLocalSearch(q): the empty query resets to the initial results;
\* otherwise the results are what Fuse returns on the initial results, or,
\* when Fuse throws, what the substring filter keeps.  The page is set to 1.
performLocalSearch(q, fuseThrows) ==
  LET trimmed == trim(q)
  IN /\ prog = "app"
     /\ activeQuery' = trimmed
     /\ \E mapped \in (IF trimmed = <<>> THEN { initialResults }
                       ELSE IF fuseThrows
                         THEN { SubstringFilter(initialResults, toLowerCase(trimmed)) }
                       ELSE RefineResults(initialResults, RefineLimit)) :
          /\ listed' = mapped
          /\ Render(mapped, 1, pageSize)
     /\ page' = 1
     /\ UNCHANGED << initialResults, pageSize >>
     /\ PageFrame

\* setLastResults of a doSearch call that ends while ResultsPage is shown:
\* lastResults, and with it initialResults, changes; the page's own state
\* does not.
LastResultsChange(n) ==
  /\ prog = "app"
  /\ initialResults # ResultList(n)
  /\ initialResults' = ResultList(n)
  /\ UNCHANGED << listed, page, pageSize, activeQuery, pageResults >>
  /\ PageFrame

\* ResultsPage mounted on the results of a search: page 1, the page size of
\* the context.
PageInit ==
  /\ Constructed
  /\ prog = "app"
  /\ MANIFEST_URL = "set" /\ BASE_URL = "set"
  /\ Unsaved
  /\ Untokenized
  /\ \E n \in 0..MaxResults : initialResults = ResultList(n)
  /\ listed = initialResults
  /\ page = 1
  /\ pageSize = DefaultPageSize
  /\ activeQuery = <<>>
  /\ pageResults = slice(listed, 0, pageSize)

PageNext ==
  \/ First
  \/ Prev
  \/ NextPage
  \/ Last
  \/ \E n \in PageSizes : ChangePageSize(n)
  \/ \E q \in RefineQueries, fuseThrows \in BOOLEAN : performLocalSearch(q, fuseThrows)
  \/ \E n \in 0..MaxResults : LastResultsChange(n)

PageSpec == PageInit /\ [][PageNext]_vars

\* ===================================================================== claims
\* Claims about SearchPage are stated for prog = "app", claims about
\* buildIndex for prog = "lib"; the variables of the other program keep their
\* initial values.

\* The transitions of status the specification allows.
StatusTransitions ==
  { <<"idle", "indexing">>, <<"indexing", "ready">>, <<"idle", "error">>,
    <<"indexing", "error">> }

\* C1: once status is 'ready' or 'error' no step changes it, and the only
\* changes of status are idle->indexing, indexing->ready, idle->error and
\* indexing->error.
C1_StatusTerminal ==
  [][ /\ (status \in {"ready", "error"} => status' = status)
      /\ (status' # status => <<status, status'>> \in StatusTransitions) ]_vars

\* C1 witness: a run that went through indexing reached 'ready' with
\* documents indexed and every chain resolved.
C1_Witness ==
  /\ prog = "app"
  /\ status = "ready"
  /\ pc = "end"
  /\ Len(docs) >= 2

\* How the two list requests of fetchManifestAndIndex went.
ManifestFailed == settled.manifest \in {"notok", "throw"} \/ settled.manifestBody = "throw"
ManifestOk == settled.manifest = "ok" /\ settled.manifestBody = "ok"
UrlsFailed == settled.urls \in {"notok", "throw"} \/ settled.urlsBody = "throw"
UrlsOk == settled.urls = "ok" /\ settled.urlsBody = "ok"

\* C2 (as stated): 'error' is entered only for missing configuration or for
\* a failure of the manifest fetch; once the manifest fetch has succeeded the
\* run never enters 'error'.
C2_OnlyTwoCauses ==
  prog = "app" =>
    /\ (status = "error" => ConfigMissing \/ ManifestFailed)
    /\ (ManifestOk => status # "error")

\* C2 (amended): 'error' is entered only for missing configuration (no
\* request was issued), for a failure of the manifest request (the URL list
\* was never requested), or for a failure of the URL-list request that
\* follows it (no worker chain was started); once both requests have
\* succeeded the concurrency chains are started and status is never 'error'.
C2_ErrorCauses ==
  prog = "app" =>
    /\ status = "error" =>
         \/ /\ ConfigMissing
            /\ requests.manifest = 0
            /\ error = "Please set MANIFEST_URL and BASE_URL in src/config.ts"
         \/ /\ ~ConfigMissing
            /\ ManifestFailed
            /\ requests.manifest = 1 /\ requests.urls = 0
         \/ /\ ~ConfigMissing
            /\ ManifestOk
            /\ UrlsFailed
            /\ requests.urls = 1 /\ chain = <<>> /\ requests.docs = 0
    /\ (ManifestOk /\ UrlsOk) =>
         /\ status \in {"indexing", "ready"}
         /\ concurrency >= 2
         /\ Len(chain) = concurrency

\* C2 witness: the manifest was obtained, the URL-list request answered with
\* a non-success status, and the run is in 'error'.
C2_Witness ==
  /\ prog = "app"
  /\ status = "error"
  /\ ManifestOk
  /\ settled.urls = "notok"
  /\ Len(manifest) = 2

\* C3: when the manifest request answers with a non-success status or is
\* rejected, the run is over in 'error' (buildIndex: its promise rejects),
\* the manifest was requested exactly once, no URL-list or document request
\* was issued, the document table, the inverted index and the fuzzy index are
\* empty, no chain was started and done is 0.
C3_ManifestFailureFatal ==
  settled.manifest \in {"notok", "throw"} =>
    /\ pc = "end"
    /\ (prog = "app" => status = "error" /\ error # "")
    /\ (prog = "lib" => promise = "rejected")
    /\ requests = [ manifest |-> 1, urls |-> 0, docs |-> 0 ]
    /\ docs = <<>>
    /\ DOMAIN inverted = {}
    /\ fuse.docs = <<>>
    /\ chain = <<>>
    /\ done = 0
    /\ progress.done = 0

\* C3 witness: the manifest request of the indexing effect was rejected and
\* the run ended in 'error'.
C3_Witness ==
  /\ prog = "app"
  /\ settled.manifest = "throw"
  /\ status = "error"
  /\ error = "fetch rejected"

\* The manifest positions some chain has shifted off the queue.
Claimed == { p \in DOMAIN claimCount : claimCount[p] > 0 }

\* The manifest positions whose document a chain is fetching.
Held == { chain[i].pos : i \in { j \in DOMAIN chain : chain[j].st \in InFlight } }

\* C4: every manifest position is shifted off the shared queue at most once
\* (App.tsx next and search.ts worker alike): no position is claimed twice,
\* no two chains hold the same position, no position completes twice or
\* completes while a chain still holds it, and the claimed positions are
\* exactly the ones no longer in the queue.
C4_NoDoubleClaim ==
  /\ \A p \in DOMAIN claimCount : claimCount[p] <= 1
  /\ \A i, j \in DOMAIN chain :
       (i # j /\ chain[i].pos # 0 /\ chain[j].pos # 0) => chain[i].pos # chain[j].pos
  /\ \A a, b \in DOMAIN completed : a # b => completed[a] # completed[b]
  /\ Held \cap Range(completed) = {}
  /\ Claimed = Held \cup Range(completed)
  /\ (chain # <<>> => Claimed = 1..(Len(manifest) - Len(queue)))

\* C4 witness: two chains of the indexing effect hold the second and the
\* third manifest entry at the same time, the third claimed from a timer
\* callback after the first document completed.
C4_Witness ==
  /\ prog = "app"
  /\ concurrency = 2
  /\ completed = <<1>>
  /\ Held = {2, 3}

\* C5 (as stated): whenever status is 'ready', every chain has resolved, no
\* document fetch is in flight and the shared queue of manifest names is
\* empty.
C5_ReadyAfterAllWorkers ==
  (prog = "app" /\ status = "ready") =>
    /\ AllResolved
    /\ Held = {}
    /\ queue = <<>>

\* Some chain has been started.
WorkersStarted == chain # <<>>

\* C6: in every state 0 <= done <= total, for the counter of the closure and
\* for the published progress alike, with total the manifest length once it
\* is set; done never decreases; and total changes only once, in the step
\* that reads the manifest, to the manifest length, with done = 0 and before
\* any chain is started.
C6_ProgressMonotone ==
  /\ [] /\ 0 <= done /\ done <= Len(manifest)
        /\ 0 <= progress.done /\ progress.done <= progress.total
        /\ progress.total \in {0, Len(manifest)}
        /\ (prog = "app" /\ WorkersStarted => progress.total = Len(manifest))
  /\ [][ /\ done' >= done
         /\ progress'.done >= progress.done
         /\ (WorkersStarted => manifest' = manifest)
         /\ (progress'.total # progress.total =>
               /\ pc = "manifestJson"
               /\ ~WorkersStarted
               /\ chain' = chain
               /\ progress'.total = Len(manifest')
               /\ progress'.done = 0
               /\ done' = 0) ]_vars

\* C6 witness: progress was published part-way through a run (one document
\* of three counted, one more in flight, one still queued).
C6_Witness ==
  /\ prog = "app"
  /\ progress = [ done |-> 1, total |-> 3 ]
  /\ done = 1
  /\ Len(queue) = 1
  /\ Cardinality(Held) = 1

\* C7 (as stated): whenever status is 'ready', done = total = the manifest
\* length; and whenever done = total while the chains run in 'indexing', no
\* document fetch is in flight and the next change of status is to 'ready'.
C7_DoneReachesTotal ==
  /\ [] ( prog = "app" =>
            /\ status = "ready" =>
                 /\ done = Len(manifest)
                 /\ progress = [ done |-> Len(manifest), total |-> Len(manifest) ]
            /\ (status = "indexing" /\ WorkersStarted /\ done = progress.total) =>
                 Held = {} )
  /\ [][ ( /\ prog = "app"
           /\ status = "indexing"
           /\ WorkersStarted
           /\ done = progress.total
           /\ status' # status ) => status' = "ready" ]_vars

\* The tokens under which the inverted index lists the document id.
PostedUnder(id) == { t \in DOMAIN inverted : id \in inverted[t] }

\* C8 (as stated): a run that reaches 'ready' has exactly one document per
\* manifest entry in the document table and done = the manifest length,
\* whatever fetches failed; each document whose fetch failed has empty
\* content and is listed under the tokens of its title only.
C8_FailuresKeepCorpus ==
  (prog = "app" /\ status = "ready") =>
    /\ Len(docs) = Len(manifest)
    /\ MapKeys(docs) = Range(manifest)
    /\ done = Len(manifest)
    /\ \A p \in failedPos :
         /\ MapHas(docs, manifest[p])
         /\ MapGet(docs, manifest[p]).content = <<>>
         /\ PostedUnder(manifest[p]) = Range(tokenize(StripTxt(manifest[p])))

\* In a step: the await chain i is suspended on settles.
Settles(i) ==
  /\ i \in DOMAIN chain
  /\ i \in DOMAIN chain'
  /\ chain[i].st \in InFlight
  /\ chain'[i] # chain[i]

\* In a step: chain i moves on to its next await on the same document.
MovesOn(i, st, o) ==
  chain'[i] = [ chain[i] EXCEPT !.st = st, !.outcomes = Append(@, o) ]

\* In a step: the document chain i holds is indexed and counted.
Completes(i) == completed' = Append(completed, chain[i].pos)

\* In a step: the document stored for chain i, the entry of the Map under
\* its file name (SearchPage) or the last element of the array (buildIndex).
Stored(i) ==
  IF prog = "lib" THEN docs'[Len(docs')] ELSE MapGet(docs', chain[i].filename)

\* In a step: the document of chain i is indexed with the fallback content.
FellBack(i) ==
  /\ Completes(i)
  /\ chain[i].pos \in failedPos'
  /\ MapHas(docs', chain[i].filename)
  /\ Stored(i).content = <<>>

\* In a step: the document of chain i is indexed with a body that was read.
ReadBody(i) ==
  /\ Completes(i)
  /\ chain[i].pos \notin failedPos'
  /\ MapHas(docs', chain[i].filename)
  /\ Stored(i).content \in Bodies

EncodedOnly(i) == chain[i].paths = << encodeURIComponent(chain[i].filename) >>
EncodedThenRaw(i) ==
  chain[i].paths = << encodeURIComponent(chain[i].filename), chain[i].filename >>

\* C9 (as stated): whenever the encoded attempt does not succeed (a
\* non-success status or a rejected fetch) the raw attempt is made next, and
\* the fallback content is used only after the raw attempt failed too.
C9_RetryOnAnyFailure ==
  [][ \A i \in DOMAIN chain :
        /\ (Settles(i) /\ chain[i].st = "fetchEnc") =>
             \/ MovesOn(i, "textEnc", "ok")
             \/ chain'[i].st = "fetchRaw" /\ chain'[i].pos = chain[i].pos
        /\ (Settles(i) /\ FellBack(i)) => EncodedThenRaw(i) ]_vars

\* C9 (amended): every document is requested first under its percent-encoded
\* name.  A non-success status of that attempt, and nothing else, is followed
\* by exactly one request of the raw name; a success is followed by reading
\* the body and no further request.  The document is indexed with the body
\* that was read, or with the empty fallback content when the raw attempt
\* answers with a non-success status, or when a fetch or a body read of
\* either attempt is rejected (no further request is made then).
C9_TwoTierFetch ==
  [][ /\ \A i \in DOMAIN chain' :
           ( /\ chain'[i].st = "fetchEnc"
             /\ (i \in DOMAIN chain => chain[i].pos # chain'[i].pos) ) =>
               /\ chain'[i].paths = << encodeURIComponent(chain'[i].filename) >>
               /\ chain'[i].outcomes = <<>>
      /\ \A i \in DOMAIN chain :
           Settles(i) =>
             CASE chain[i].st = "fetchEnc" ->
                    /\ EncodedOnly(i)
                    /\ \/ MovesOn(i, "textEnc", "ok")
                       \/ /\ chain'[i] =
                               [ chain[i] EXCEPT !.st = "fetchRaw",
                                                 !.outcomes = <<"notok">>,
                                                 !.paths = Append(@, chain[i].filename) ]
                          /\ requests'.docs = requests.docs + 1
                       \/ FellBack(i)
               [] chain[i].st = "textEnc" ->
                    /\ EncodedOnly(i)
                    /\ chain[i].outcomes = <<"ok">>
                    /\ (ReadBody(i) \/ FellBack(i))
               [] chain[i].st = "fetchRaw" ->
                    /\ EncodedThenRaw(i)
                    /\ (MovesOn(i, "textRaw", "ok") \/ FellBack(i))
               [] chain[i].st = "textRaw" ->
                    /\ EncodedThenRaw(i)
                    /\ chain[i].outcomes = <<"notok", "ok">>
                    /\ (ReadBody(i) \/ FellBack(i)) ]_vars

\* C9 witness: the first document was indexed with the fallback content
\* after a single request (its fetch or body read was rejected), while the
\* second document, whose encoded attempt answered with a non-success
\* status, is reading the body of its raw attempt.
C9_Witness ==
  /\ prog = "app"
  /\ Len(manifest) = 2
  /\ completed = <<1>>
  /\ failedPos = {1}
  /\ requests.docs = 3
  /\ \E i \in DOMAIN chain :
       /\ chain[i].st = "textRaw"
       /\ chain[i].pos = 2
       /\ chain[i].paths = << encodeURIComponent(FileName(2)), FileName(2) >>

\* The publications made before any document completes: setProgress({ done:
\* 0, total }) of SearchPage once the manifest is read, none in buildIndex.
InitialPublications == IF prog = "app" /\ settled.manifestBody = "ok" THEN 1 ELSE 0

\* The run is over: 'ready' or 'error' was set, or the promise was settled.
Finished == pc = "end"

\* C10: after the publication of { done: 0, total } that SearchPage makes
\* when the manifest is read, there is exactly one publication per completed
\* document and none besides: the k-th document to complete, whatever its
\* manifest position, is published as done = k, in the step that put it
\* (with the body read or the empty fallback content) into the document
\* collection; no manifest position completes twice; every claimed position
\* is completed or still held by a chain, and none is held once the run is
\* over.
C10_ProgressPerDocument ==
  /\ [] /\ Len(published) = InitialPublications + Len(completed)
        /\ \A k \in DOMAIN completed :
             /\ published[InitialPublications + k] =
                  [ done |-> k, total |-> Len(manifest) ]
             /\ completed[k] \in DOMAIN manifest
             /\ MapHas(docs, manifest[completed[k]])
             /\ prog = "lib" => docs[k].id = manifest[completed[k]]
             /\ \A j \in DOMAIN completed : j # k => completed[j] # completed[k]
        /\ Claimed = Held \cup Range(completed)
        /\ Finished => Held = {}
  /\ [][ published' # published =>
           \/ /\ prog = "app"
              /\ published = <<>>
              /\ completed' = <<>>
              /\ published' = << [ done |-> 0, total |-> Len(manifest') ] >>
           \/ \E i \in DOMAIN chain :
                /\ chain[i].st \in InFlight
                /\ chain[i].pos \notin Range(completed)
                /\ completed' = Append(completed, chain[i].pos)
                /\ published' = Append(published, [ done |-> Len(completed'),
                                                    total |-> Len(manifest) ])
                /\ MapHas(docs', chain[i].filename)
                /\ Stored(i).id = chain[i].filename ]_vars

\* C10 witness: the second manifest entry completed first, with the fallback
\* content, then the first entry with a body that was read; the two
\* publications are done = 1 and done = 2.
C10_Witness ==
  /\ prog = "app"
  /\ Len(manifest) = 3
  /\ completed = <<2, 1>>
  /\ failedPos = {2}
  /\ published = << [ done |-> 0, total |-> 3 ], [ done |-> 1, total |-> 3 ],
                    [ done |-> 2, total |-> 3 ] >>
  /\ MapGet(docs, FileName(1)).content # <<>>

\* The tokens indexDoc files a document under.
DocTokens(d) == Range(tokenize(d.title)) \cup Range(tokenize(d.content))

\* A chain is suspended on a fetch, on a body read or on its timer.
Suspended(i) == chain[i].st \in InFlight \cup {"timer"}

\* C11: in every state of SearchPage (every state lies between two jobs, so
\* a query can run in it) each document in the document table is listed in
\* the posting set of every token of its title and content, and is held by
\* the Fuse instance.
C11_NoPartialDocument ==
  prog = "app" =>
    \A k \in DOMAIN docs :
      /\ \A t \in DocTokens(docs[k]) :
           t \in DOMAIN inverted /\ docs[k].id \in inverted[t]
      /\ \E j \in DOMAIN fuse.docs : fuse.docs[j] = docs[k]

\* C11 witness: a document with content is in the table while another chain
\* is suspended.
C11_Witness ==
  /\ prog = "app"
  /\ \E k \in DOMAIN docs : docs[k].content # <<>>
  /\ \E i \in DOMAIN chain : Suspended(i)
  /\ C11_NoPartialDocument

\* The posting set of token t (empty when the inverted index has no entry).
Posting(t) == IF t \in DOMAIN inverted THEN inverted[t] ELSE {}

\* C12 (as stated): in every state of SearchPage, an identifier is in the
\* posting set of a token if and only if the document stored under it in the
\* document table has the token among the tokens of its title or content.
C12_InvertedExact ==
  prog = "app" =>
    /\ \A t \in DOMAIN inverted : \A id \in inverted[t] :
         MapHas(docs, id) /\ t \in DocTokens(MapGet(docs, id))
    /\ \A k \in DOMAIN docs : \A t \in DocTokens(docs[k]) :
         docs[k].id \in Posting(t)

\* C13 (as stated): no step of SearchPage removes a document from the
\* document table or changes the title or content stored under an
\* identifier, and no step removes a token entry or an identifier from a
\* posting set.
C13_AppendOnly ==
  [][ prog = "app" =>
        /\ \A k \in DOMAIN docs :
             /\ MapHas(docs', docs[k].id)
             /\ MapGet(docs', docs[k].id).title = docs[k].title
             /\ MapGet(docs', docs[k].id).content = docs[k].content
        /\ \A t \in DOMAIN inverted :
             t \in DOMAIN inverted' /\ inverted[t] \subseteq inverted'[t] ]_vars

\* C14: a step of a query (doSearch up to its first await, the question
\* branch resuming after an await, search) leaves the document table, every
\* posting set and entry of the inverted index, and the collection of the
\* global Fuse instance as they were.
C14_QueriesReadOnly ==
  [][ searchVars' # searchVars =>
        /\ docs' = docs
        /\ inverted' = inverted
        /\ fuse' = fuse ]_vars

\* C14 witness: doSearch narrowed the candidates by two tokens, dropped a
\* document from them and returned the other.
C14_Witness ==
  /\ prog = "app"
  /\ query = <<"M","a","r","s"," ","a">>
  /\ "inverted" \in reads
  /\ Len(docs) = 2
  /\ Len(results) = 1
  /\ docs[1].id \in inverted[<<"a">>]
  /\ docs[2].id \in inverted[<<"a">>]

\* The text a query was called with is empty or white space only.
AskedBlank == asked.called /\ \A k \in DOMAIN asked.q : asked.q[k] = " "

\* C15: after doSearch or search was called with an empty text or with white
\* space only, in whatever status, the result list is empty, no call is left
\* suspended, and neither the document table nor the inverted index nor a
\* Fuse instance was read.
C15_EmptyQuery ==
  AskedBlank => /\ results = <<>>
                /\ reads = {}
                /\ query = <<>>
                /\ pending = NoCall

\* C15 witness: doSearch was called with a blank on a 'ready' SearchPage
\* that holds two documents.
C15_Witness ==
  /\ prog = "app"
  /\ status = "ready"
  /\ Len(docs) = 2
  /\ asked = [ called |-> TRUE, q |-> <<" ">>, max |-> 0 ]
  /\ results = <<>>

\* The hit lists of SearchPage in a state: the result list, and the sorted
\* hits a suspended question call holds.
HitLists == { results, pending.hitsArr }

\* The list holds the hits of the whole query: the result list of a query
\* without question mark, or the hits of a suspended question call.
WholeHits(L) ==
  \/ L = pending.hitsArr /\ pending.st # "idle"
  \/ L = results /\ asked.called /\ query # <<>> /\ ~includes(query, <<"?">>)

\* The tier of document d for the phrase of the current query.
TitleHas(d) == includes(toLowerCase(d.title), PhraseOf(query))
ContentHas(d) == includes(toLowerCase(d.content), PhraseOf(query))

\* C16: in every hit list of SearchPage no identifier occurs twice; an entry
\* for a document whose lower-cased title contains the phrase has score 0;
\* an entry for any other document whose lower-cased content contains the
\* phrase has score 10; an entry for a document with neither has a score of
\* 50 or more; and every document of the first two kinds is in the list of
\* the whole query.
C16_TiersExclusive ==
  prog = "app" =>
    \A L \in HitLists :
      /\ \A j, k \in DOMAIN L : j # k => L[j].id # L[k].id
      /\ \A k \in DOMAIN L : \A n \in DOMAIN docs :
           docs[n].id = L[k].id =>
             L[k].score = IF TitleHas(docs[n]) THEN 0
                          ELSE IF ContentHas(docs[n]) THEN 10
                          ELSE L[k].score
      /\ \A k \in DOMAIN L : \A n \in DOMAIN docs :
           (docs[n].id = L[k].id /\ ~TitleHas(docs[n]) /\ ~ContentHas(docs[n])) =>
             L[k].score >= 50
      /\ WholeHits(L) =>
           \A n \in DOMAIN docs :
             (TitleHas(docs[n]) \/ ContentHas(docs[n])) =>
               \E k \in DOMAIN L : L[k].id = docs[n].id

\* C16 witness: for the query "a" the document titled "a", whose content
\* holds the phrase too, is listed once with score 0, and the other
\* document, which has the phrase in its content only, with score 10.
C16_Witness ==
  /\ prog = "app"
  /\ query = <<"a">>
  /\ Len(results) = 2
  /\ results[1].score = 0
  /\ results[1].title = <<"a">>
  /\ includes(toLowerCase(results[1].content), <<"a">>)
  /\ results[2].score = 10

\* a comes no later than b in case-insensitive lexicographic order (the
\* characters in the order of the collation).
TitleLeq(a, b) == ComparePrimary(toLowerCase(a), toLowerCase(b)) <= 0

\* The entries of L are in the order of the score ordering law.
Ordered(L) ==
  \A k \in 1..(Len(L) - 1) :
    /\ L[k].score <= L[k + 1].score
    /\ L[k].score = L[k + 1].score => L[k].matches >= L[k + 1].matches
    /\ (L[k].score = L[k + 1].score /\ L[k].matches = L[k + 1].matches) =>
         TitleLeq(L[k].title, L[k + 1].title)

\* C17: the result list of doSearch and of search, and the sorted hits a
\* suspended question call holds, are in non-decreasing order of score,
\* within equal score in non-increasing order of matches, and within equal
\* score and matches in non-decreasing case-insensitive order of title.
C17_ScoreOrdering == Ordered(results) /\ Ordered(pending.hitsArr)

\* C17 witness: two content hits of equal score, the one with two matches
\* before the one with one match although its title ("B c") comes after
\* the other's ("a"), and although it was indexed second.
C17_Witness ==
  /\ prog = "app"
  /\ Len(results) = 2
  /\ results[1].score = 10 /\ results[2].score = 10
  /\ results[1].matches = 2 /\ results[2].matches = 1
  /\ results[1].title = <<"B"," ","c">>
  /\ docs[2].id = results[1].id

\* The phrase the exact tiers of the current query look for.
ExactPhrase == IF prog = "app" THEN PhraseOf(query) ELSE toLowerCase(query)

\* Entry e of a hit list is an exact-phrase hit / a fuzzy hit: it is the entry
\* of an indexed document that has / has not the phrase in title or content.
ExactHit(e) ==
  \E n \in DOMAIN docs :
    /\ docs[n].id = e.id
    /\ \/ includes(toLowerCase(docs[n].title), ExactPhrase)
       \/ includes(toLowerCase(docs[n].content), ExactPhrase)

FuzzyHit(e) ==
  \E n \in DOMAIN docs :
    /\ docs[n].id = e.id
    /\ ~includes(toLowerCase(docs[n].title), ExactPhrase)
    /\ ~includes(toLowerCase(docs[n].content), ExactPhrase)

\* C18: the score of a fuzzy hit is between 50 and 150 for every
\* dissimilarity from 0 to 1 (in thousandths) and for a missing one; in
\* every hit list an exact-phrase hit has score 0 or 10, a fuzzy hit a score
\* from 50 to 150, and every fuzzy hit stands after every exact-phrase hit.
C18_ExactOutranksFuzzy ==
  /\ \A d \in 0..1000 : FuzzyScore(d) \in 50..150
  /\ FuzzyScore(NoScore) = 150
  /\ \A L \in HitLists :
       /\ \A k \in DOMAIN L :
            /\ ExactHit(L[k]) => L[k].score \in {0, 10}
            /\ FuzzyHit(L[k]) => L[k].score \in 50..150
       /\ \A j, k \in DOMAIN L :
            (ExactHit(L[j]) /\ FuzzyHit(L[k])) => (j < k /\ L[j].score < L[k].score)

\* C18 witness: a content hit with score 10 is followed by a fuzzy hit for
\* which Fuse gave the dissimilarity 0 (the best there is), scored 50.
C18_Witness ==
  /\ query = <<"M","a","r","s"," ","a">>
  /\ Len(results) = 2
  /\ ExactHit(results[1]) /\ results[1].score = 10
  /\ FuzzyHit(results[2]) /\ results[2].score = 50

\* The identifiers of the indexed documents that have every one of the
\* tokens among the tokens of their title or content.
HavingAll(tokens) ==
  { docs[n].id : n \in { m \in DOMAIN docs : Range(tokens) \subseteq DocTokens(docs[m]) } }

\* C19 (as stated): in every state of SearchPage and for every query with
\* at least one token, the candidate set doSearch computes (before it
\* removes the exact-phrase hits) is the set of the documents in the table
\* having every query token, and it is empty when some query token has no
\* posting set.
C19_CandidateIntersection ==
  prog = "app" =>
    \A q0 \in Queries :
      LET tokens == tokenize(trim(q0))
          ids    == Candidates(docs, inverted, tokens).ids
      IN tokens # <<>> =>
           /\ ids = HavingAll(tokens)
           /\ (\E k \in DOMAIN tokens : tokens[k] \notin DOMAIN inverted) => ids = {}

\* doSearch was called with a text that is not blank and has no token.
ZeroTokens ==
  prog = "app" /\ asked.called /\ query # <<>> /\ tokenize(query) = <<>>

\* C20 (as stated): after a query without tokens the candidate set is the
\* whole document table, and every entry of the result list that is not an
\* exact-phrase hit has a score of 50 or more.
C20_PunctuationFallback ==
  ZeroTokens =>
    /\ Candidates(docs, inverted, tokenize(query)).ids = MapKeys(docs)
    /\ \A k \in DOMAIN results : ~ExactHit(results[k]) => results[k].score >= 50

\* C20 (amended): after a query without tokens the candidate set is the
\* whole document table, and every hit that is not an exact-phrase hit has a
\* score from 50 to 150.  These hits are the result list when the query has
\* no question mark.  When it has one, the result list is empty while the
\* call is suspended and when there was no hit, and else it is the single
\* entry "AI Summary" with identifier "AI", score 0 and matches 1.
C20_PunctuationOrQuestion ==
  ZeroTokens =>
    /\ Candidates(docs, inverted, tokenize(query)).ids = MapKeys(docs)
    /\ \A L \in HitLists : WholeHits(L) =>
         \A k \in DOMAIN L : ~ExactHit(L[k]) => (FuzzyHit(L[k]) /\ L[k].score \in 50..150)
    /\ includes(query, <<"?">>) =>
         \/ results = <<>> /\ (pending.st = "idle" => pending.hitsArr = <<>>)
         \/ /\ pending = NoCall
            /\ Len(results) = 1
            /\ results[1].id = <<"A","I">>
            /\ results[1].score = 0
            /\ results[1].matches = 1
    /\ (includes(query, <<"?">>) /\ pending.st # "idle") => results = <<>>

\* C20 witness: the query "?" on two documents ended with the one entry
\* "AI Summary".
C20_Witness ==
  /\ ZeroTokens
  /\ query = <<"?">>
  /\ Len(docs) = 2
  /\ pending = NoCall
  /\ Len(results) = 1
  /\ results[1].id = <<"A","I">>

\* ---------------------------------------------------------------- C21

\* The entry refers to a document of the document table: its identifier is
\* the document's and its title is the document's.
RefersToDocument(e) ==
  \E n \in DOMAIN docs : docs[n].id = e.id /\ docs[n].title = e.title

\* The entry is the one the question branch builds.
IsSummary(e) ==
  e.id = <<"A","I">> /\ e.title = <<"A","I"," ","S","u","m","m","a","r","y">>

\* C21 (as stated): every entry of the result list has the identifier and
\* the title of a document that was in the document table when the query ran.
C21_ResultsReferToDocuments ==
  \A k \in DOMAIN results : RefersToDocument(results[k])

\* C21 (amended): every hit of the three tiers, in the result list and in
\* the hits a suspended question call holds, has the identifier and the
\* title of a document of the document table; the only other entry is the
\* "AI Summary" entry with identifier "AI", which is the whole result list
\* of a query that contains a question mark and had a hit.
C21_DocumentsOrSummary ==
  /\ \A k \in DOMAIN pending.hitsArr : RefersToDocument(pending.hitsArr[k])
  /\ \A k \in DOMAIN results :
       \/ RefersToDocument(results[k])
       \/ /\ prog = "app"
          /\ includes(query, <<"?">>)
          /\ IsSummary(results[k])
          /\ Len(results) = 1
          /\ docs # <<>>

\* C21 witness: the query "Mars a" returned two documents, one of them a
\* fuzzy hit, each with its identifier and title.
C21_Witness ==
  /\ prog = "app"
  /\ query = <<"M","a","r","s"," ","a">>
  /\ Len(results) = 2
  /\ \E k \in DOMAIN results : results[k].score >= 50
  /\ \A k \in DOMAIN results : RefersToDocument(results[k])

\* ---------------------------------------------------------------- C22

\* A doSearch call has returned: it is not suspended on an await.
Returned == prog = "app" /\ asked.called /\ pending.st = "idle"

\* C22: no doSearch call raises an error, whatever the query and the state
\* of the indexes: a call that has returned did so without an error.
C22_AnyInputAccepted ==
  Returned => raised = ""

\* ---------------------------------------------------------------- C23

\* The exact-phrase hits (tiers 0 and 1) doSearch(q0) finds on the document
\* table.
ExactHits(table, q0) ==
  LET phrase == PhraseOf(trim(q0))
  IN ContentPhrase(table, phrase, 1, TitlePhrase(table, phrase, 1, <<>>))

\* Every hit of the list earlier is in the list later, with the same score
\* and the same matches count.
KeptIn(earlier, later) ==
  \A k \in DOMAIN earlier : \E j \in DOMAIN later :
    /\ later[j].id = earlier[k].id
    /\ later[j].score = earlier[k].score
    /\ later[j].matches = earlier[k].matches

\* C23: in every step of the indexing run of SearchPage and for every query
\* text, each exact-phrase hit a query finds before the step is found by the
\* same query after the step, with the same score and matches count (so the
\* same holds for any two points of a run).
C23_ResultsGrow ==
  [][ prog = "app" =>
        \A q0 \in Queries :
          trim(q0) # <<>> => KeptIn(ExactHits(docs, q0), ExactHits(docs', q0)) ]_vars

\* ---------------------------------------------------------------- C24

\* SearchPage has started its worker chains.
ChainsStarted == prog = "app" /\ settled.urlsBody = "ok"

\* C24: for every concurrency hint from undefined (0) to the largest, K is
\* from 2 to 8; and once the chains are started, concurrency is the K of one
\* of the hints, and exactly K chains exist, each of which has run next().
C24_WorkerCountBounded ==
  /\ \A hc \in 0..MaxHardwareConcurrency : Concurrency(hc) \in 2..8
  /\ ChainsStarted =>
       /\ concurrency \in 2..8
       /\ \E hc \in HardwareConcurrencies : concurrency = Concurrency(hc)
       /\ DOMAIN chain = 1..concurrency
       /\ \A i \in DOMAIN chain : chain[i].st # "new"

\* C24 witness: with the largest hint eight chains were started, three of
\* which hold a document.
C24_Witness ==
  /\ ChainsStarted
  /\ concurrency = 8
  /\ Len(chain) = 8
  /\ Cardinality({ i \in DOMAIN chain : chain[i].st \in InFlight }) = 3

\* ---------------------------------------------------------------- C25

\* The chains that have a document fetch (or the read of its body)
\* outstanding.  A chain is one record, so it holds one fetch at most.
Fetching == { i \in DOMAIN chain : chain[i].st \in InFlight }

\* In a step: chain i shifts a manifest position off the queue.
Claims(i) ==
  /\ i \in DOMAIN chain'
  /\ chain'[i].pos # 0
  /\ (i \in DOMAIN chain => chain'[i].pos # chain[i].pos)

\* C25: in every state the outstanding document fetches are at most K;
\* SearchPage's counter active is their number, from 0 to K; every claimed
\* position is completed (indexed and counted in done) or held by the one
\* chain fetching it; and a chain that claims a position in a step either
\* held none before the step or completes the one it held in that step.
C25_OutstandingFetchesBounded ==
  /\ [] (chain # <<>> =>
           /\ Cardinality(Fetching) <= concurrency
           /\ prog = "app" => (0 <= active /\ active <= concurrency
                                /\ active = Cardinality(Fetching))
           /\ done = Len(completed)
           /\ Cardinality(Claimed) = Len(completed) + Cardinality(Fetching))
  /\ [][ \A i \in DOMAIN chain' :
           Claims(i) =>
             \/ i \notin DOMAIN chain
             \/ chain[i].st \in {"new", "timer"}
             \/ /\ chain[i].st \in InFlight
                /\ completed' = Append(completed, chain[i].pos)
                /\ done' = done + 1 ]_vars

\* C25 witness: with K = 2 and three documents, both chains are fetching
\* after the first document was indexed and counted and its chain claimed
\* the third.
C25_Witness ==
  /\ prog = "app"
  /\ concurrency = 2
  /\ Len(manifest) = 3
  /\ active = 2
  /\ done = 1
  /\ queue = <<>>
  /\ Cardinality(Fetching) = 2

\* ---------------------------------------------------------------- C26

\* The documents next() can hand to indexDoc in the current state: the
\* document of a fetching chain, with a body or with the fallback content.
Indexable ==
  { AppDoc(chain[i].filename, body, chain[i].urll) : i \in Fetching, body \in Bodies }

\* C26: In SearchPage the Fuse instance holds exactly the documents of the
\* document table; and for every document indexDoc can be called with, the
\* path on which add succeeds and the path on which it throws leave the same
\* set of documents in the Fuse instance, the new document among them.
C26_FallbackTransparent ==
  (prog = "app" /\ fuse.created) =>
    /\ Range(fuse.docs) = Range(docs)
    /\ \A d \in Indexable :
         LET added   == indexDoc(docs, inverted, fuse, d, FALSE)
             rebuilt == indexDoc(docs, inverted, fuse, d, TRUE)
         IN /\ Range(added.fuse.docs) = Range(rebuilt.fuse.docs)
            /\ d \in Range(added.fuse.docs)
            /\ Range(added.fuse.docs) = Range(added.docs)

\* ---------------------------------------------------------------- C27

\* The identifiers of the records of a saved list.
SavedIds(list) == { list[k].id : k \in DOMAIN list }

\* The records of a saved list with an identifier other than id, in order.
Others(list, id) == SelectSeq(list, LAMBDA p : p.id # id)

\* C27: the saved list never holds two records with one identifier; and a
\* toggleSaved call for a record leaves exactly one record with its
\* identifier (the record itself) when none was saved and none when one was,
\* keeps the records of every other identifier as they were, and, when the
\* call before it was for the same identifier, leaves the set of saved
\* identifiers as it was before that call.
C27_SaveKeyedIdempotent ==
  /\ [] (\A j, k \in DOMAIN saved : j # k => saved[j].id # saved[k].id)
  /\ [][ (toggled' # toggled /\ toggled'.called) =>
           LET item == toggled'.item
           IN /\ toggled'.before = saved
              /\ item.id \notin SavedIds(saved) =>
                   /\ SavedIds(saved') = SavedIds(saved) \cup { item.id }
                   /\ Len(saved') = Len(saved) + 1
                   /\ \E k \in DOMAIN saved' : saved'[k] = item
              /\ item.id \in SavedIds(saved) =>
                   /\ SavedIds(saved') = SavedIds(saved) \ { item.id }
                   /\ Len(saved') = Len(saved) - 1
              /\ Others(saved', item.id) = Others(saved, item.id)
              /\ (toggled.called /\ toggled.item.id = item.id) =>
                   SavedIds(saved') = SavedIds(toggled.before) ]_vars

\* C27 witness: a record was toggled off by a call for another record with
\* the same identifier, right after a call that had put it in front of two
\* saved records.
C27_Witness ==
  /\ toggled.called
  /\ Len(toggled.before) = 3
  /\ Len(saved) = 2
  /\ toggled.before[1].id = toggled.item.id
  /\ toggled.before[1] # toggled.item

\* ---------------------------------------------------------------- C28

\* C28: the calls of tokenize on one text all return the same sequence;
\* every token is non-empty and has only characters of [a-z0-9]; and the
\* tokens joined by a separator tokenize to the same sequence.
C28_TokenizeCanonical ==
  /\ \A j, k \in DOMAIN calls : calls[j] = calls[k]
  /\ \A k \in DOMAIN calls : \A n \in DOMAIN calls[k] :
       /\ calls[k][n] # <<>>
       /\ Range(calls[k][n]) \subseteq Range(LowerChars) \cup Range(DigitChars)
  /\ \A k \in DOMAIN calls : calls[k] = tokenize(input)
  /\ rejoined.called => rejoined.tokens = calls[1]

\* C28 witness: "B-1" was tokenized twice into "b", "1", and the two tokens
\* joined by "." gave the same tokens again.
C28_Witness ==
  /\ input = <<"B","-","1">>
  /\ calls = << << <<"b">>, <<"1">> >>, << <<"b">>, <<"1">> >> >>
  /\ rejoined.called
  /\ rejoined.sep = "."
  /\ rejoined.tokens = << <<"b">>, <<"1">> >>

\* ---------------------------------------------------------------- C29

\* C29: every run of SearchPage that entered 'indexing' eventually reaches
\* 'ready' or 'error'.
C29_RunTerminates ==
  (prog = "app" /\ status = "indexing") ~> (status \in {"ready", "error"})

\* C29 witness: a run over a manifest shorter than K, with a document that
\* failed, reached 'ready'.
C29_Witness ==
  /\ prog = "app"
  /\ status = "ready"
  /\ Len(manifest) \in 1..(concurrency - 1)
  /\ failedPos # {}
  /\ done = Len(manifest)

\* ---------------------------------------------------------------- C30

\* C30: in every state of SearchPage and for every query whose candidate
\* set, after the exact-phrase hits are removed, has from 1 to 600
\* documents, the collection the fuzzy search runs on is exactly the
\* candidates; so every document a tier-2 result can be is in the candidate
\* set, has every query token in its title or content when the query has
\* tokens, and is not an exact-phrase hit.
C30_FuzzyScopedToCandidates ==
  prog = "app" =>
    \A q0 \in Queries :
      LET q       == trim(q0)
          tokens  == tokenize(q)
          hitsMap == ExactHits(docs, q0)
          all     == Candidates(docs, inverted, tokens).ids
          ids     == Remaining(Candidates(docs, inverted, tokens), hitsMap).ids
          coll    == FuseInput(docs, fuse, ids)
      IN (q # <<>> /\ Cardinality(ids) \in 1..SmallFuseMax) =>
           /\ Range(coll) = { MapGet(docs, id) : id \in ids }
           /\ \A d \in Range(coll) :
                /\ d.id \in all
                /\ tokens # <<>> => Range(tokens) \subseteq DocTokens(d)
                /\ ~MapHas(hitsMap, d.id)

\* ---------------------------------------------------------------- C31

\* C31: in every state of SearchPage on a corpus where the candidate set of
\* the query, after the exact-phrase hits are removed, has more than 600
\* documents, the fuzzy search runs on what the global Fuse instance holds
\* (not on the candidates); after the query every tier-2 result is a document
\* of that instance that is no exact-phrase hit, and every exact-phrase hit
\* is in the result list with its tier-0 or tier-1 score.
C31_GlobalAboveThreshold ==
  prog = "app" =>
    \A q0 \in LargeQueries :
      LET tokens  == tokenize(trim(q0))
          hitsMap == ExactHits(docs, q0)
          ids     == Remaining(Candidates(docs, inverted, tokens), hitsMap).ids
      IN Cardinality(ids) > SmallFuseMax =>
           /\ FuseInput(docs, fuse, ids) = fuse.docs
           /\ Range(CandidateArray(docs, ids)) # Range(fuse.docs)
           /\ (asked = [ called |-> TRUE, q |-> q0, max |-> 0 ] /\ pending = NoCall) =>
                /\ KeptIn(hitsMap, results)
                /\ \A k \in DOMAIN results :
                     results[k].score >= 50 =>
                       /\ MapHas(fuse.docs, results[k].id)
                       /\ ~MapHas(hitsMap, results[k].id)

\* C31 witness: the query "a b" was run on a corpus where 601 documents
\* besides the phrase hit have both words; the result list holds the phrase
\* hit with score 10 and a tier-2 result for a document that has no word b.
C31_Witness ==
  LET tokens == tokenize(<<"a"," ","b">>)
  IN /\ prog = "app"
     /\ asked = [ called |-> TRUE, q |-> <<"a"," ","b">>, max |-> 0 ]
     /\ Cardinality(Remaining(Candidates(docs, inverted, tokens),
                              ExactHits(docs, asked.q)).ids) > SmallFuseMax
     /\ \E j, k \in DOMAIN results :
          /\ results[j].score = 10
          /\ results[k].score >= 50
          /\ results[k].id \notin Candidates(docs, inverted, tokens).ids
          /\ results[k].id \notin HavingAll(tokens)
          /\ <<"b">> \notin DocTokens(MapGet(docs, results[k].id))

\* ---------------------------------------------------------------- C32

\* The documents posted under every token of tokens: none when a token has
\* no posting set.
Posted(tokens) ==
  IF \E t \in Range(tokens) : t \notin DOMAIN inverted THEN {}
  ELSE { id \in MapKeys(docs) : \A t \in Range(tokens) : id \in inverted[t] }

\* The current query of SearchPage has a token and no document is posted
\* under all its tokens besides the exact-phrase hits.
NoTokenMatch ==
  /\ prog = "app"
  /\ asked.called
  /\ tokenize(query) # <<>>
  /\ Posted(tokenize(query)) \subseteq MapKeys(ExactHits(docs, asked.q))

\* No fuzzy search is run for the current query.
NoFuzzySearch ==
  FuseInput(docs, fuse,
            Remaining(Candidates(docs, inverted, tokenize(query)),
                      ExactHits(docs, asked.q)).ids) = <<>>

\* C32 (as stated): after a query of SearchPage with at least one token, if
\* some query token has no posting set, or no document is posted under all
\* the tokens, or every such document is an exact-phrase hit, then no fuzzy
\* search is run and every entry of the result list is a tier-0 or tier-1
\* hit: the entry of an indexed document with the phrase, scored 0 or 10.
C32_NoFuzzyWithoutTokenMatch ==
  NoTokenMatch =>
    /\ NoFuzzySearch
    /\ \A k \in DOMAIN results :
         results[k].score \in {0, 10} /\ ExactHit(results[k])

\* C32 (amended): under the same condition no fuzzy search is run, and the
\* result list holds tier-0 and tier-1 hits only, or, for a query with a
\* question mark, is the one "AI Summary" entry.
C32_NoFuzzyOrSummary ==
  NoTokenMatch =>
    /\ NoFuzzySearch
    /\ \/ \A k \in DOMAIN results :
            results[k].score \in {0, 10} /\ ExactHit(results[k])
       \/ /\ includes(query, <<"?">>)
          /\ Len(results) = 1
          /\ IsSummary(results[1])

\* C32 witness: a query with a token was run on an index of two documents;
\* the one document posted under its tokens is an exact-phrase hit, and it
\* is the whole result list (the other document was not searched for).
C32_Witness ==
  /\ NoTokenMatch
  /\ pending = NoCall
  /\ ~includes(query, <<"?">>)
  /\ Len(docs) = 2
  /\ Len(results) = 1
  /\ results[1].score \in {0, 10}
  /\ Posted(tokenize(query)) = { results[1].id }

\* ---------------------------------------------------------------- C33

\* The last n entries of the list s.
Suffix(s, n) == SubSeq(s, Len(s) - n + 1, Len(s))

\* The manifest position of the document that completed last under the
\* name id.
LastCompleted(id) ==
  LET at == { k \in DOMAIN completed : manifest[completed[k]] = id }
  IN completed[CHOOSE k \in at : \A j \in at : j <= k]

\* C33: once the chains of SearchPage are started, in every state the two
\* queues are the manifest and the URL list less the same number of leading
\* entries (a name and its URL are shifted off in one step); every chain
\* that is fetching holds the name and the URL of one manifest position;
\* every document in the table carries the URL at the position of the
\* manifest entry it was last indexed for, and every document the Fuse
\* instance holds carries the URL at the position of a completed entry of
\* its name, whatever the order of completion.
C33_UrlPairing ==
  ChainsStarted =>
    /\ Len(manifest) - Len(queue) = Len(urls) - Len(urlqueue)
    /\ queue = Suffix(manifest, Len(queue))
    /\ urlqueue = Suffix(urls, Len(urlqueue))
    /\ \A i \in DOMAIN chain :
         chain[i].st \in InFlight =>
           /\ chain[i].filename = manifest[chain[i].pos]
           /\ chain[i].urll = urls[chain[i].pos]
    /\ \A n \in DOMAIN docs :
         /\ \E k \in DOMAIN completed : manifest[completed[k]] = docs[n].id
         /\ docs[n].url = urls[LastCompleted(docs[n].id)]
    /\ \A n \in DOMAIN fuse.docs :
         \E k \in DOMAIN completed :
           /\ manifest[completed[k]] = fuse.docs[n].id
           /\ fuse.docs[n].url = urls[completed[k]]

\* C33 witness: the second manifest entry completed before the first, and
\* both documents are in the table, each with the URL of its own position.
C33_Witness ==
  /\ ChainsStarted
  /\ Len(completed) >= 2
  /\ completed[1] = 2
  /\ completed[2] = 1
  /\ manifest[1] # manifest[2]
  /\ MapGet(docs, manifest[1]).url = urls[1]
  /\ MapGet(docs, manifest[2]).url = urls[2]
  /\ urls[1] # urls[2]

\* ---------------------------------------------------------------- C34

\* C34: for every content and every match index idx in it, with len the
\* default (220 for makeExcerpt, 200 for excerptFor), start = max(0, idx -
\* len / 2) and the window from start to min(content length, start + len):
\* the window contains idx and has at most len characters; the excerpt is
\* the window's characters, with one marker put in front if and only if
\* start > 0 and one marker put behind if and only if start + len is less
\* than the content length.
C34_ExcerptWindow ==
  excerpted.called =>
    LET c     == excerpted.content
        idx   == excerpted.idx
        len   == excerpted.len
        out   == excerpted.out
        start == IF idx - (len \div 2) > 0 THEN idx - (len \div 2) ELSE 0
        stop  == IF start + len < Len(c) THEN start + len ELSE Len(c)
        lead  == IF start > 0 THEN 1 ELSE 0
        trail == IF start + len < Len(c) THEN 1 ELSE 0
    IN /\ len = (IF prog = "app" THEN 220 ELSE 200)
       /\ start <= idx /\ idx < stop
       /\ stop - start <= len
       /\ Len(out) = lead + (stop - start) + trail
       /\ lead = 1 => out[1] = Ellipsis
       /\ trail = 1 => out[Len(out)] = Ellipsis
       /\ \A k \in 1..(stop - start) : out[lead + k] = c[start + k]

\* C34 witness: makeExcerpt cut a content on both sides: a marker, the 220
\* characters from start on, a marker.
C34_Witness ==
  /\ excerpted.called
  /\ prog = "app"
  /\ excerpted.idx > 110
  /\ excerpted.idx + 110 < Len(excerpted.content)
  /\ Len(excerpted.out) = 222
  /\ excerpted.out[1] = Ellipsis
  /\ excerpted.out[222] = Ellipsis
  /\ excerpted.out[2] = excerpted.content[excerpted.idx - 110 + 1]

\* The first part of C35: buildIndex resolves only after the whole manifest
\* is processed.  For
\* every concurrency option >= 1 (or none given): when the promise is
\* fulfilled every manifest position was shifted off the queue once and
\* completed once, docs holds one document per position in completion order
\* (with empty content where the fetch fell back) and the Fuse index holds
\* them all; onProgress is called once per completion with done counting up
\* from 1 and total the manifest length; at most min(concurrency,
\* manifest length) fetch chains are in flight.
BuildIndexProcessedAll ==
  (prog = "lib" /\ concurrency >= 1) =>
    LET n == Len(manifest)
    IN /\ Cardinality({ i \in DOMAIN chain : chain[i].st \in InFlight }) <= Min(concurrency, n)
       /\ published = [ k \in 1..Len(completed) |-> [ done |-> k, total |-> n ] ]
       /\ promise = "fulfilled" =>
            /\ Len(docs) = n
            /\ Len(completed) = n
            /\ \A p \in 1..n :
                 /\ claimCount[p] = 1
                 /\ Cardinality({ k \in 1..n : completed[k] = p }) = 1
            /\ \A k \in 1..n :
                 /\ docs[k].id = manifest[completed[k]]
                 /\ completed[k] \in failedPos => docs[k].content = <<>>
            /\ fuse = [ created |-> TRUE, docs |-> docs ]

\* C35: buildIndex resolves only after the whole manifest is processed (the
\* above), and search(q, max) never returns more than max results (an empty
\* result list being within every max).
C35_NeverMoreThanMax ==
  /\ BuildIndexProcessedAll
  /\ (prog = "lib" /\ asked.called /\ results # <<>>) => Len(results) <= asked.max

\* What search(q, max) does keep to: at most max results when max >= 0; with
\* a negative max the hits without the last -max of them, which is up to
\* manifest length + max results.
SliceBound ==
  /\ BuildIndexProcessedAll
  /\ (prog = "lib" /\ asked.called) =>
       Len(results) <= (IF asked.max >= 0 THEN asked.max
                        ELSE Max(Len(manifest) + asked.max, 0))

\* A run the first part of C35 is about: buildIndex resolved on three names
\* with two workers, one fetch fell back, the documents completed out of
\* manifest order, and search("a", 1) returned one of the two documents
\* holding the word.
CappedSearchAfterRun ==
  /\ prog = "lib"
  /\ promise = "fulfilled"
  /\ concurrency = 2
  /\ Len(manifest) = 3
  /\ failedPos # {}
  /\ completed # <<1, 2, 3>>
  /\ asked = [ called |-> TRUE, q |-> <<"a">>, max |-> 1 ]
  /\ Cardinality({ k \in DOMAIN docs : includes(docs[k].content, <<"a">>) }) = 2
  /\ Len(results) = 1

\* C36: on the results page the current page stays in range, 1 <= page <=
\* totalPages, where totalPages is 1 for no results and otherwise the least
\* number of pages of pageSize results that hold them all; and the results
\* shown are those at the 0-based positions from (page - 1) * pageSize up to,
\* not including, page * pageSize, as far as the list goes.
C36_PageInRange ==
  prog = "app" =>
    LET n     == Len(listed)
        from  == (page - 1) * pageSize
        count == Max(0, Min(n, page * pageSize) - from)
    IN /\ 1 <= page
       /\ page <= totalPages
       /\ totalPages >= 1
       /\ totalPages * pageSize >= n
       /\ totalPages > 1 => (totalPages - 1) * pageSize < n
       /\ pageResults = [ j \in 1..count |-> listed[from + j] ]

\* C36 witness: after a refine search that returned eleven results, with page
\* size 5, the third and last page shows the eleventh result only.
C36_Witness ==
  /\ prog = "app"
  /\ activeQuery # <<>>
  /\ Len(listed) = 11
  /\ listed # initialResults
  /\ pageSize = 5
  /\ page = 3
  /\ totalPages = 3
  /\ pageResults = << listed[11] >>

\* The second part of C37: right after the sign-in merge the saved list has
\* distinct identifiers and holds every local record whose identifier the
\* snapshot lacks.
MergedKeepsLocal ==
  (prog = "app" /\ getDoc.st = "merged" /\ toggled = NoToggle) =>
    /\ \A j, k \in DOMAIN saved : saved[j].id = saved[k].id => j = k
    /\ \A k \in DOMAIN getDoc.local :
         getDoc.local[k].id \notin MapKeys(getDoc.snap.saved) =>
           \E j \in DOMAIN saved : saved[j] = getDoc.local[k]

\* C37: a record saved on the server is never lost except by a toggle of its
\* identifier.  Once the user is signed in, every identifier the server
\* document held at sign-in that toggleSaved was never called with is in the
\* server document's saved list, and after the merge in the local saved list;
\* and the merged list is as above.
C37_ServerSavedNeverLost ==
  /\ MergedKeepsLocal
  /\ (prog = "app" /\ currentUser # "") =>
       \A id \in atSignIn \ touched :
         /\ id \in MapKeys(server.saved)
         /\ getDoc.st = "merged" => id \in MapKeys(saved)

\* The loss C37 rules out, in its lasting form: the sign-in merge has run and
\* no write is in flight, and an identifier the server held at sign-in, never
\* toggled, is neither on the server nor in the local list.
LostForGood ==
  /\ prog = "app"
  /\ getDoc.st = "merged"
  /\ setDocs = <<>>
  /\ \E id \in atSignIn \ touched : id \notin MapKeys(server.saved) \cup MapKeys(saved)

====
